---- MODULE Spec2Model ----
(***************************************************************************)
(* A model of the league-live data layer (src/src/utils/api.js): the       *)
(* module-level TTL cache, the six cached fetchers and the asynchronous    *)
(* calls in flight on them.  Each segment of an async function between two *)
(* network awaits is one atomic action; an await that is answered from the *)
(* cache continues in the same action (no network event can run between).  *)
(* On top of the data layer: the components that call it (ChampionDetails, *)
(* the account handlers of LivePage) and the guess check of MinigamePage.   *)
(***************************************************************************)
EXTENDS Integers, Sequences, FiniteSets, TLC

VARIABLES
  now,      \* Date.now(), in milliseconds since the page was loaded
  ticks,    \* number of clock advances so far (bounded)
  cache,    \* the module-level Map: cache key -> [data, timestamp]
  calls,    \* the async calls in flight: slot -> [op, pc, arg, loc, hit, res]
  starts,   \* number of calls started so far (bounded)
  vreq,     \* history: the requests to the versions endpoint: [n, last]
  stored,   \* history: the first setCache on each key: key -> [data, timestamp]
  ev,       \* the last step taken: a call, a response, a tick, a cache operation
  family,   \* the operations the callers of this run invoke
  env,      \* process.env: which YouTube API keys the build was given
  view      \* the React state of the mounted component and its pending fetches

vars == <<now, ticks, cache, calls, starts, vreq, stored, ev, family, env, view>>

-----------------------------------------------------------------------------
(* Bounds of the model *)

MaxTicks == 2
MaxStarts == 3
MaxTextLen == 8
MaxGuessLen == 4

-----------------------------------------------------------------------------
(* JavaScript values: tagged records, so that values of different types    *)
(* can be compared                                                         *)

Null == [t |-> "null"]
Undefined == [t |-> "undefined"]
Str(s) == [t |-> "str", v |-> s]
Arr(s) == [t |-> "arr", v |-> s]
Obj(o) == [t |-> "obj", v |-> o]
Bool(b) == [t |-> "bool", v |-> b]
Num(n) == [t |-> "num", v |-> n]

\* a string kept as its sequence of characters
Chars(s) == [t |-> "chars", v |-> s]

\* JavaScript truthiness, as tested by `if (cached)` and `if (!liveGame)`
Truthy(x) ==
  /\ x.t \notin {"null", "undefined"}
  /\ ~(x.t = "str" /\ x.v = "")
  /\ ~(x.t = "chars" /\ x.v = <<>>)

-----------------------------------------------------------------------------
(* The cache *)

UGG == 60 * 1000
YOUTUBE == 24 * 60 * 60 * 1000
DATA_DRAGON == 60 * 60 * 1000

\* `${prefix}_${JSON.stringify(args)}`: one key per (prefix, argument list)
getCacheKey(prefix, args) == <<prefix, args>>

isExpiredStrict(timestamp, ttlMs, t) == t - timestamp >= ttlMs
isExpired(timestamp, ttlMs, t) == t - timestamp > ttlMs

\* getFromCache: the value returned and the cache it leaves behind
getFromCache(c, key, ttlMs, t) ==
  IF key \notin DOMAIN c
    THEN [value |-> Null, cache |-> c]
    ELSE IF isExpired(c[key].timestamp, ttlMs, t)
           THEN [value |-> Null,
                 cache |-> [k \in DOMAIN c \ {key} |-> c[k]]]
           ELSE [value |-> c[key].data, cache |-> c]

setCache(c, key, data, t) ==
  [k \in DOMAIN c \cup {key} |->
     IF k = key THEN [data |-> data, timestamp |-> t] ELSE c[k]]

EmptyCache == [k \in {} |-> Null]

-----------------------------------------------------------------------------
(* Direct use of the cache: any sequence of setCache / getFromCache calls   *)
(* and clock advances                                                      *)

TickSteps == {1, UGG, DATA_DRAGON, YOUTUBE}
NoRequest == [n |-> 0, last |-> 0]
Ttls == {UGG, DATA_DRAGON, YOUTUBE}
DirectKeys == {getCacheKey("dd_version", <<>>), getCacheKey("skill_order", <<"Garen">>)}
DirectData == {Str("14.1.1"), Arr(<<>>)}

NoEv == [type |-> "none"]
NoRes == [st |-> "pending"]
IdleCall ==
  [op |-> "idle", pc |-> "idle", arg |-> Null, loc |-> Null, hit |-> FALSE,
   res |-> NoRes]
CallIds == {1, 2}

\* process.env.REACT_APP_YOUTUBE_API_KEY, ..._BACKUP: set or not
Keys(main, backup) == [main |-> main, backup |-> backup]

\* the clock advances (nothing else does: no timer touches the cache)
Advance(steps) ==
  /\ ticks < MaxTicks
  /\ \E d \in steps : now' = now + d
  /\ ticks' = ticks + 1
  /\ ev' = [type |-> "tick"]
  /\ UNCHANGED <<cache, calls, starts, vreq, stored, family, env, view>>

CacheTick == Advance(TickSteps)

CacheSet ==
  \E key \in DirectKeys, data \in DirectData :
    /\ cache' = setCache(cache, key, data, now)
    /\ ev' = [type |-> "set", key |-> key, data |-> data]
    /\ UNCHANGED <<now, ticks, calls, starts, vreq, stored, family, env, view>>

CacheGet ==
  \E key \in DirectKeys, ttlMs \in Ttls :
    LET r == getFromCache(cache, key, ttlMs, now) IN
    /\ cache' = r.cache
    /\ ev' = [type |-> "get", key |-> key, ttl |-> ttlMs, value |-> r.value,
              had |-> key \in DOMAIN cache]
    /\ UNCHANGED <<now, ticks, calls, starts, vreq, stored, family, env, view>>

\* the slots of the calls that the components have in flight
Slots == {1, 2, 3, 4}

\* a displayed value, with the selection it was fetched for (history)
Shown(of, value) == [of |-> of, value |-> value]

\* the useState initial values of ChampionDetails and LivePage, before any
\* selection
NoView ==
  [championName |-> Null,
   abilities |-> Shown(Null, Arr(<<>>)), loadingAbilities |-> FALSE,
   videos |-> Shown(Null, [guide |-> Null, matchup |-> Null]),
   loadingVideos |-> FALSE,
   accounts |-> {}, selectedAccount |-> <<>>,
   liveGame |-> Shown(Null, Null), selectedChampionId |-> Null,
   waits |-> [i \in Slots |-> Null]]

\* the module has just been loaded: the Map is empty, nothing is in flight
InitWith(f, e) ==
  /\ now = 0
  /\ ticks = 0
  /\ cache = EmptyCache
  /\ calls = [i \in CallIds |-> IdleCall]
  /\ starts = 0
  /\ vreq = NoRequest
  /\ stored = EmptyCache
  /\ ev = NoEv
  /\ family = f
  /\ env = e
  /\ view = NoView

InitCache == InitWith("cache", Keys(TRUE, TRUE))

NextCache == CacheTick \/ CacheSet \/ CacheGet

SpecCache == InitCache /\ [][NextCache]_vars

-----------------------------------------------------------------------------
(* Promises, errors and HTTP responses *)

Resolved(v) == [st |-> "resolved", v |-> v]
Rejected(e) == [st |-> "rejected", e |-> e]

\* new Error(message)
Error(message) ==
  [t |-> "err", message |-> message, response |-> FALSE, status |-> 0,
   hint |-> Null]
TypeError == Error("TypeError")

\* the responses of an upstream: a 2xx with a body, a non-2xx status (with
\* the Retry-After header it may carry), or no response at all
Ok(body) == [kind |-> "ok", body |-> body]
Http(status, hint) == [kind |-> "http", status |-> status, hint |-> hint]
NetworkError == [kind |-> "network"]

\* the error axios rejects with: it carries the response when there is one
AxiosError(resp) ==
  IF resp.kind = "http"
    THEN [t |-> "err", message |-> "Request failed", response |-> TRUE,
          status |-> resp.status, hint |-> resp.hint]
    ELSE [t |-> "err", message |-> "Network Error", response |-> FALSE,
          status |-> 0, hint |-> Null]

\* the outcome of one segment of an async function: the cache it leaves, the
\* call as it stands (pc "done" with its result, or awaiting an endpoint)
\* and the request it has issued, if any
Done(call, c, res, hit) ==
  [cache |-> c, reqs |-> <<>>,
   call |-> [call EXCEPT !.pc = "done", !.res = res, !.hit = hit]]
Await(call, c, ep, loc) ==
  [cache |-> c, reqs |-> <<ep>>,
   call |-> [call EXCEPT !.pc = ep, !.loc = loc]]

-----------------------------------------------------------------------------
(* fetchDataDragonVersion, fetchChampionData *)

VersionKey == getCacheKey("dd_version", <<>>)
ChampionKey(version) == getCacheKey("champion_data", <<version>>)

\* response.data[0] of versions.json
FirstVersion(body) == IF Len(body) >= 1 THEN Str(body[1]) ELSE Undefined

VersionStartNoCache(call, c, t) == Await(call, c, "versions", Null)
VersionStart(call, c, t) ==
  LET g == getFromCache(c, VersionKey, DATA_DRAGON, t) IN
  IF Truthy(g.value)
    THEN Done(call, g.cache, Resolved(g.value), TRUE)
    ELSE Await(call, g.cache, "versions", Null)

VersionResume(call, c, t, resp) ==
  IF resp.kind = "ok"
    THEN LET version == FirstVersion(resp.body) IN
         Done(call, setCache(c, VersionKey, version, t), Resolved(version), FALSE)
    ELSE Done(call, c, Rejected(AxiosError(resp)), FALSE)

ChampionsStart(call, c, t) ==
  LET g == getFromCache(c, ChampionKey(call.arg), DATA_DRAGON, t) IN
  IF Truthy(g.value)
    THEN Done(call, g.cache, Resolved(g.value), TRUE)
    ELSE Await(call, g.cache, "champion", Null)

ChampionsResume(call, c, t, resp) ==
  IF resp.kind = "ok"
    THEN Done(call, setCache(c, ChampionKey(call.arg), resp.body, t),
              Resolved(resp.body), FALSE)
    ELSE Done(call, c, Rejected(AxiosError(resp)), FALSE)

-----------------------------------------------------------------------------
(* Strings are sequences of characters where the code looks inside them   *)

\* String.prototype.split(sep)
RECURSIVE split(_, _)
split(s, sep) ==
  IF \A i \in 1..Len(s) : s[i] # sep
    THEN <<s>>
    ELSE LET i == CHOOSE n \in 1..Len(s) :
                    s[n] = sep /\ \A j \in 1..(n - 1) : s[j] # sep
         IN <<SubSeq(s, 1, i - 1)>> \o split(SubSeq(s, i + 1, Len(s)), sep)

lowerChar(ch) ==
  CASE ch = "A" -> "a" [] ch = "B" -> "b" [] ch = "G" -> "g"
    [] ch = "J" -> "j" [] ch = "Z" -> "z" [] OTHER -> ch
toLowerCase(s) == [i \in 1..Len(s) |-> lowerChar(s[i])]

\* toLowerCase on a role name (roles are kept as whole words)
lowerWord(w) ==
  CASE w = "TOP" -> "top" [] w = "Jungle" -> "jungle" [] w = "SUPP" -> "supp"
    [] w = "Garen" -> "garen" [] w = "Wukong" -> "wukong"
    [] w = "Kai'Sa" -> "kai'sa"
    [] OTHER -> w

-----------------------------------------------------------------------------
(* fetchLiveGame *)

LiveKey(accountName) == getCacheKey("live_game", <<accountName>>)

roleOrder == [top |-> 1, jungle |-> 2, mid |-> 3, adc |-> 4, supp |-> 5]

\* roleOrder[p.currentRole?.toLowerCase()] || 5
roleRank(p) ==
  IF p.currentRole # Null /\ lowerWord(p.currentRole.v) \in DOMAIN roleOrder
    THEN roleOrder[lowerWord(p.currentRole.v)]
    ELSE 5

sortByRole(a, b) == roleRank(a) - roleRank(b)

\* Array.prototype.sort(sortByRole): a stable sort
insertFirst(x, s) == <<x>> \o s
insertByRole(x, s) ==
  LET k == Cardinality({i \in 1..Len(s) : sortByRole(s[i], x) <= 0}) IN
  SubSeq(s, 1, k) \o <<x>> \o SubSeq(s, k + 1, Len(s))
RECURSIVE sortTeam(_)
sortTeam(team) ==
  IF team = <<>>
    THEN <<>>
    ELSE insertByRole(team[Len(team)], sortTeam(SubSeq(team, 1, Len(team) - 1)))

\* const [gameName, tagLine] = accountName.split('#')
gameNameOf(accountName) == split(accountName, "#")[1]
hasTagLine(accountName) == Len(split(accountName, "#")) >= 2
tagLineOf(accountName) == split(accountName, "#")[2]

\* allPlayers.find(p => ...): the index of the first participant whose name
\* and tag match the request, 0 if there is none
findPlayer(allPlayers, gameName, tagLine) ==
  LET hits == {i \in 1..Len(allPlayers) :
                 /\ toLowerCase(allPlayers[i].riotUserName) = toLowerCase(gameName)
                 /\ toLowerCase(allPlayers[i].riotTagLine) = toLowerCase(tagLine)}
  IN IF hits = {} THEN 0 ELSE CHOOSE i \in hits : \A j \in hits : i <= j

getChampionInfo(champions, championId) ==
  LET es == champions.v
      hits == {i \in 1..Len(es) : es[i].key = championId}
  IN IF hits = {}
       THEN [name |-> <<"Champion", championId>>, key |-> <<"Champion", championId>>]
       ELSE LET i == CHOOSE n \in hits : \A j \in hits : n <= j
            IN [name |-> <<es[i].name>>, key |-> <<es[i].slug>>]

rosterEntry(champions, p) ==
  [championId |-> p.championId,
   championName |-> getChampionInfo(champions, p.championId).name,
   championKey |-> getChampionInfo(champions, p.championId).key,
   summonerName |-> p.riotUserName \o <<"#">> \o p.riotTagLine,
   role |-> p.currentRole]

\* the catch block of fetchLiveGame
LiveCatchRaw(call, c, error) == Done(call, c, Rejected(error), FALSE)
LiveCatch(call, c, error) ==
  IF error.response /\ error.status = 404
    THEN Done(call, c, Rejected(Error("Not currently in game")), FALSE)
    ELSE Done(call, c, Rejected(error), FALSE)

\* axios.post rejects: control passes to the catch block with the axios
\* error; nothing posts the request again
LiveRejectedRetry(call, c, resp) ==
  IF resp.kind = "http" /\ resp.status = 429
    THEN Await(call, c, "live", call.loc)
    ELSE LiveCatch(call, c, AxiosError(resp))
LiveRejected(call, c, resp) == LiveCatch(call, c, AxiosError(resp))

\* lines 172-212: the result is assembled, cached and returned
LiveAssemble(call, c, t, champions) ==
  LET me == call.loc.currentPlayer
      info == getChampionInfo(champions, me.championId)
      result ==
        Obj([myChampion |-> [id |-> me.championId, name |-> info.name,
                             key |-> info.key],
             allyTeam |-> [i \in 1..Len(call.loc.allyTeamRaw) |->
                             rosterEntry(champions, call.loc.allyTeamRaw[i])],
             enemyTeam |-> [i \in 1..Len(call.loc.enemyTeamRaw) |->
                              rosterEntry(champions, call.loc.enemyTeamRaw[i])]])
  IN Done(call, setCache(c, LiveKey(call.arg), result, t), Resolved(result), FALSE)

\* fetchChampionData(version), called at line 170
LiveChampions(call, c, t, version) ==
  LET g == getFromCache(c, ChampionKey(version), DATA_DRAGON, t) IN
  IF Truthy(g.value)
    THEN LiveAssemble(call, g.cache, t, g.value)
    ELSE Await(call, g.cache, "champion", [call.loc EXCEPT !.version = version])

\* fetchDataDragonVersion(), called at line 170
LiveVersion(call, c, t) ==
  LET g == getFromCache(c, VersionKey, DATA_DRAGON, t) IN
  IF Truthy(g.value)
    THEN LiveChampions(call, g.cache, t, g.value)
    ELSE Await(call, g.cache, "versions", call.loc)

\* lines 133-167: the response of the live-match upstream is examined
LiveAfterPost(call, c, t, resp) ==
  IF resp.kind # "ok" THEN LiveRejected(call, c, resp)
  ELSE IF Truthy(resp.body.errors)
    THEN LiveCatch(call, c, Error(resp.body.errors.v[1]))
  ELSE IF ~Truthy(resp.body.getLiveGame)
    THEN LiveCatch(call, c, Error("Not currently in game"))
  ELSE
    LET liveGame == resp.body.getLiveGame.v
        allPlayers == liveGame.teamA \o liveGame.teamB
        found == findPlayer(allPlayers, call.loc.riotUserName, call.loc.riotTagLine)
        isTeamA == found <= Len(liveGame.teamA)
    IN IF found = 0
         THEN LiveCatch(call, c, Error("Player not found in game"))
         ELSE LiveVersion(
                [call EXCEPT !.loc =
                   [riotUserName |-> call.loc.riotUserName,
                    riotTagLine |-> call.loc.riotTagLine,
                    \* history: the two teams as the upstream sent them
                    teamA |-> liveGame.teamA, teamB |-> liveGame.teamB,
                    isTeamA |-> isTeamA,
                    currentPlayer |-> allPlayers[found],
                    allyTeamRaw |->
                      sortTeam(IF isTeamA THEN liveGame.teamA ELSE liveGame.teamB),
                    enemyTeamRaw |->
                      sortTeam(IF isTeamA THEN liveGame.teamB ELSE liveGame.teamA),
                    version |-> Null]],
                c, t)

LiveStart(call, c, t) ==
  LET g == getFromCache(c, LiveKey(call.arg), UGG, t) IN
  IF Truthy(g.value)
    THEN Done(call, g.cache, Resolved(g.value), TRUE)
    ELSE IF ~hasTagLine(call.arg)
           THEN Done(call, g.cache, Rejected(TypeError), FALSE)
           ELSE Await(call, g.cache, "live",
                      [riotUserName |-> gameNameOf(call.arg),
                       riotTagLine |-> tagLineOf(call.arg)])

LiveResume(call, c, t, resp) ==
  CASE call.pc = "live" -> LiveAfterPost(call, c, t, resp)
    [] call.pc = "versions" ->
         IF resp.kind = "ok"
           THEN LET version == FirstVersion(resp.body) IN
                LiveChampions(call, setCache(c, VersionKey, version, t), t, version)
           ELSE LiveCatch(call, c, AxiosError(resp))
    [] call.pc = "champion" ->
         IF resp.kind = "ok"
           THEN LiveAssemble(call,
                  setCache(c, ChampionKey(call.loc.version), resp.body, t),
                  t, resp.body)
           ELSE LiveCatch(call, c, AxiosError(resp))

-----------------------------------------------------------------------------
(* fetchChampionAbilities, fetchAbilitiesFromDataDragon *)

AbilitiesKey(championName) == getCacheKey("champion_abilities", <<championName>>)

\* description.replace(/\{\{[^}]*\}\}/g, '[VALUE]') on a sequence of
\* characters: a match starts at "{{", runs over characters other than "}"
\* and ends with "}}"
mustacheEnd(s, i) ==
  IF i + 1 <= Len(s) /\ s[i] = "{" /\ s[i + 1] = "{"
    THEN LET closers == {j \in (i + 2)..Len(s) : s[j] = "}"} IN
         IF closers = {} THEN 0
         ELSE LET j == CHOOSE n \in closers : \A m \in closers : n <= m IN
              IF j + 1 <= Len(s) /\ s[j + 1] = "}" THEN j + 1 ELSE 0
    ELSE 0
\* replace without the g flag: the first match only
replaceFirstMustache(s, i) ==
  LET starts1 == {k \in i..Len(s) : mustacheEnd(s, k) > 0} IN
  IF starts1 = {} THEN SubSeq(s, i, Len(s))
  ELSE LET k == CHOOSE n \in starts1 : \A m \in starts1 : n <= m IN
       SubSeq(s, i, k - 1) \o <<"[VALUE]">> \o SubSeq(s, mustacheEnd(s, k) + 1, Len(s))

RECURSIVE replaceMustache(_, _)
replaceMustache(s, i) ==
  IF i > Len(s) THEN <<>>
  ELSE IF mustacheEnd(s, i) > 0
    THEN <<"[VALUE]">> \o replaceMustache(s, mustacheEnd(s, i) + 1)
    ELSE <<s[i]>> \o replaceMustache(s, i + 1)

spellKeys == <<"Q", "W", "E", "R">>
spellKeyFirst(index) == Str(spellKeys[1])
\* spellKeys[index]: undefined beyond the fourth spell
spellKey(index) == IF index <= Len(spellKeys) THEN Str(spellKeys[index]) ELSE Undefined

\* lines 314-337: the list built from the primary source
primaryAbilities(championData) ==
  (IF Truthy(championData.passive)
     THEN <<[key |-> Str("P"), name |-> championData.passive.v.name,
             description |-> championData.passive.v.description,
             cooldowns |-> <<Str("Passive")>>]>>
     ELSE <<>>)
  \o [i \in 1..Len(championData.spells) |->
        [key |-> spellKey(i), name |-> championData.spells[i].name,
         description |-> championData.spells[i].description,
         cooldowns |-> championData.spells[i].cooldown]]

\* spell.cooldownBurn ? spell.cooldownBurn.split('/') : ['?','?','?','?','?']
burnCooldowns(spell) ==
  IF Truthy(spell.cooldownBurn)
    THEN LET parts == split(spell.cooldownBurn.v, "/") IN
         [i \in 1..Len(parts) |-> Chars(parts[i])]
    ELSE <<Str("?"), Str("?"), Str("?"), Str("?"), Str("?")>>

\* lines 365-390: the list built from the reference CDN
fallbackAbilities(champion) ==
  (IF Truthy(champion.passive)
     THEN <<[key |-> Str("P"), name |-> champion.passive.v.name,
             description |-> replaceMustache(champion.passive.v.description, 1),
             cooldowns |-> <<Str("Passive")>>]>>
     ELSE <<>>)
  \o [i \in 1..Len(champion.spells) |->
        [key |-> spellKey(i), name |-> champion.spells[i].name,
         description |-> replaceMustache(champion.spells[i].tooltip, 1),
         cooldowns |-> burnCooldowns(champion.spells[i])]]

\* lines 295-305: the slug of the champion whose name matches, Null if none
findChampionId(champions, championName) ==
  LET es == champions.v
      hits == {i \in 1..Len(es) : lowerWord(es[i].name) = lowerWord(championName)}
  IN IF hits = {} THEN Null
     ELSE Str(es[CHOOSE i \in hits : \A j \in hits : i <= j].slug)

\* fetchAbilitiesFromDataDragon answered; its error passes through the
\* catch blocks of lines 341-350, which rethrow it
AbilitiesFallback(call, c, t, resp) ==
  IF resp.kind # "ok" THEN Done(call, c, Rejected(AxiosError(resp)), FALSE)
  ELSE IF ~Truthy(resp.body)
    THEN Done(call, c, Rejected(Error("Champion not found")), FALSE)
  ELSE LET list == Arr(fallbackAbilities(resp.body.v)) IN
       Done(call, setCache(c, AbilitiesKey(call.arg), list, t), Resolved(list), FALSE)

\* lines 308-346: the primary source answered
AbilitiesPrimary(call, c, t, resp) ==
  IF resp.kind = "ok" /\ Truthy(resp.body)
    THEN LET list == Arr(primaryAbilities(resp.body.v)) IN
         Done(call, setCache(c, AbilitiesKey(call.arg), list, t), Resolved(list), FALSE)
    ELSE Await(call, c, "ddragon", call.loc)

\* lines 294-311
AbilitiesResolve(call, c, t, champions) ==
  LET championId == findChampionId(champions, call.arg) IN
  IF ~Truthy(championId)
    THEN Done(call, c, Rejected(Error("Champion not found")), FALSE)
    ELSE Await(call, c, "bigbrain", [call.loc EXCEPT !.championId = championId])

AbilitiesChampions(call, c, t, version) ==
  LET g == getFromCache(c, ChampionKey(version), DATA_DRAGON, t) IN
  IF Truthy(g.value)
    THEN AbilitiesResolve(call, g.cache, t, g.value)
    ELSE Await(call, g.cache, "champion", [call.loc EXCEPT !.version = version])

NoAbilityLocals == [version |-> Null, championId |-> Null]

AbilitiesStart(call, c, t) ==
  LET g == getFromCache(c, AbilitiesKey(call.arg), DATA_DRAGON, t)
      v == getFromCache(g.cache, VersionKey, DATA_DRAGON, t)
      started == [call EXCEPT !.loc = NoAbilityLocals]
  IN IF Truthy(g.value) THEN Done(call, g.cache, Resolved(g.value), TRUE)
     ELSE IF Truthy(v.value)
       THEN AbilitiesChampions([started EXCEPT !.loc.version = v.value],
                               v.cache, t, v.value)
       ELSE Await(call, v.cache, "versions", NoAbilityLocals)

AbilitiesResume(call, c, t, resp) ==
  CASE call.pc = "versions" ->
         IF resp.kind = "ok"
           THEN LET version == FirstVersion(resp.body) IN
                AbilitiesChampions([call EXCEPT !.loc.version = version],
                                   setCache(c, VersionKey, version, t), t, version)
           ELSE Done(call, c, Rejected(AxiosError(resp)), FALSE)
    [] call.pc = "champion" ->
         IF resp.kind = "ok"
           THEN AbilitiesResolve(call,
                  setCache(c, ChampionKey(call.loc.version), resp.body, t),
                  t, resp.body)
           ELSE Done(call, c, Rejected(AxiosError(resp)), FALSE)
    [] call.pc = "bigbrain" -> AbilitiesPrimary(call, c, t, resp)
    [] call.pc = "ddragon" -> AbilitiesFallback(call, c, t, resp)

-----------------------------------------------------------------------------
(* fetchSkillOrder, parseSkillOrder, parseUggSkillOrder                     *)
(* A scraped page is kept as what the regular expressions of the parsers   *)
(* find in it: its skillCell cells in document order (content trimmed,     *)
(* whether the tag holds "active"), or its skill-order rows (the skill     *)
(* label, the numbers of its skill-up cells).  A body that is not a string *)
(* has no matchAll.                                                        *)

SkillKey(championName) == getCacheKey("skill_order", <<championName>>)

Page(cells) == [t |-> "html", cells |-> cells, rows |-> <<>>]
UggPage(rows) == [t |-> "html", cells |-> <<>>, rows |-> rows]
Cell(content, active) == [content |-> content, active |-> active]
Row(label, levels) == [label |-> label, levels |-> levels]

Returned(v) == [threw |-> FALSE, v |-> v]
Threw == [threw |-> TRUE, v |-> <<>>]

skillLetters == {"Q", "W", "E", "R"}

\* the parser without its threshold of six entries
parseSkillOrderAll(htmlContent) ==
  IF htmlContent.t # "html" THEN Threw
  ELSE
    LET cells == htmlContent.cells
        active == {i \in 1..Len(cells) :
                     cells[i].active /\ cells[i].content \in skillLetters}
        slot(position) ==
          LET at == {i \in active : (i - 1) % 18 = position} IN
          IF at = {} THEN ""
          ELSE cells[CHOOSE i \in at : \A j \in at : i <= j].content
        skillOrder == [p \in 1..18 |-> slot(p - 1)]
    IN Returned(SelectSeq(skillOrder, LAMBDA skill : skill # ""))

\* lines 556-600
parseSkillOrder(htmlContent) ==
  IF htmlContent.t # "html" THEN Threw
  ELSE IF htmlContent.cells = <<>> THEN Returned(<<>>)
  ELSE
    LET cells == htmlContent.cells
        active == {i \in 1..Len(cells) :
                     cells[i].active /\ cells[i].content \in skillLetters}
        allActiveCells == {i \in active : Cardinality({j \in active : j < i}) < 18}
        slot(position) ==
          LET at == {i \in allActiveCells : (i - 1) % 18 = position} IN
          IF at = {} THEN ""
          ELSE cells[CHOOSE i \in at : \A j \in at : i <= j].content
        skillOrder == [p \in 1..18 |-> slot(p - 1)]
        finalOrder == SelectSeq(skillOrder, LAMBDA skill : skill # "")
    IN Returned(IF Len(finalOrder) >= 6 THEN finalOrder ELSE <<>>)

fallbackOrder ==
  <<"Q", "E", "W", "Q", "Q", "R", "Q", "E", "Q", "E", "R", "E", "E", "W", "W",
    "R", "W", "W">>

targetCounts == [Q |-> 5, W |-> 5, E |-> 5, R |-> 3]
fillOrder == <<"Q", "W", "E", "R">>

RECURSIVE fill(_, _)
fill(skill, needed) == IF needed <= 0 THEN <<>> ELSE <<skill>> \o fill(skill, needed - 1)

\* lines 606-709; the parser catches its own exceptions
parseUggSkillOrder(htmlContent) ==
  IF htmlContent.t # "html" THEN fallbackOrder
  ELSE
    LET rows == htmlContent.rows
        labelled == {r \in 1..Len(rows) : rows[r].label \in skillLetters}
        slot(level) ==
          LET at == {r \in labelled :
                       \E k \in 1..Len(rows[r].levels) : rows[r].levels[k] = level}
          IN IF at = {} THEN ""
             ELSE rows[CHOOSE r \in at : \A q \in at : q <= r].label
        skillOrder == [level \in 1..18 |-> slot(level)]
        finalOrder == SelectSeq(skillOrder, LAMBDA skill : skill # "")
        currentCounts(skill) ==
          Cardinality({i \in 1..Len(finalOrder) : finalOrder[i] = skill})
        missing(n) == fill(fillOrder[n], targetCounts[fillOrder[n]] - currentCounts(fillOrder[n]))
        completeOrder == finalOrder \o missing(1) \o missing(2) \o missing(3) \o missing(4)
    IN IF Len(completeOrder) >= 6 THEN completeOrder ELSE <<>>

\* lines 467-477: the fallback request failed
SkillUggFailedThrows(call, c, t, resp) ==
  Done(call, c, Rejected(AxiosError(resp)), FALSE)
SkillUggFailed(call, c, t, resp) ==
  Done(call, setCache(c, SkillKey(call.arg.championName), Arr(<<>>), t),
       Resolved(Arr(<<>>)), FALSE)

\* lines 448-466
SkillUgg(call, c, t, resp) ==
  IF resp.kind = "ok"
    THEN LET skillOrder == Arr(parseUggSkillOrder(resp.body)) IN
         Done(call, setCache(c, SkillKey(call.arg.championName), skillOrder, t),
              Resolved(skillOrder), FALSE)
    ELSE SkillUggFailed(call, c, t, resp)

\* lines 416-446
SkillLeagueOfGraphs(call, c, t, resp) ==
  LET parsed == IF resp.kind = "ok" THEN parseSkillOrder(resp.body) ELSE Threw IN
  IF ~parsed.threw /\ Len(parsed.v) > 0
    THEN Done(call, setCache(c, SkillKey(call.arg.championName), Arr(parsed.v), t),
              Resolved(Arr(parsed.v)), FALSE)
    ELSE Await(call, c, "ugg", Null)

\* lines 399-414
SkillStart(call, c, t) ==
  LET g == IF call.arg.forceRefresh
             THEN [value |-> Null, cache |-> c]
             ELSE getFromCache(c, SkillKey(call.arg.championName), DATA_DRAGON, t)
  IN IF Truthy(g.value)
       THEN Done(call, g.cache, Resolved(g.value), TRUE)
       ELSE Await(call, g.cache, "leagueofgraphs", Null)

SkillResume(call, c, t, resp) ==
  CASE call.pc = "leagueofgraphs" -> SkillLeagueOfGraphs(call, c, t, resp)
    [] call.pc = "ugg" -> SkillUgg(call, c, t, resp)

-----------------------------------------------------------------------------
(* searchYouTubeVideos *)

YoutubeKey(query, maxResults) == getCacheKey("youtube", <<query, maxResults>>)

\* lines 233-243 (trySearch): the videos of a response
isVideo(item) == Truthy(item.id) /\ item.id.v.kind = "youtube#video"
trySearch(body) ==
  IF ~Truthy(body) \/ body.v.items.t # "arr" THEN Threw
  ELSE LET videos == SelectSeq(body.v.items.v, isVideo) IN
       IF \E i \in 1..Len(videos) : ~Truthy(videos[i].snippet) THEN Threw
       ELSE Returned([i \in 1..Len(videos) |->
                        [videoId |-> videos[i].id.v.videoId,
                         title |-> videos[i].snippet.v.title]])

\* the empty result returned without being stored
YoutubeEmptyNotStored(call, c, t) == Done(call, c, Resolved(Arr(<<>>)), FALSE)

\* lines 274-276
YoutubeEmpty(call, c, t) ==
  Done(call, setCache(c, YoutubeKey(call.arg.query, call.arg.maxResults), Arr(<<>>), t),
       Resolved(Arr(<<>>)), FALSE)

\* the search that stores the empty list when no key is configured
YoutubeStartStoresEmpty(call, c, t, e) ==
  LET g == getFromCache(c, YoutubeKey(call.arg.query, call.arg.maxResults), YOUTUBE, t) IN
  IF Truthy(g.value) THEN Done(call, g.cache, Resolved(g.value), TRUE)
  ELSE IF ~e.main /\ ~e.backup THEN YoutubeEmpty(call, g.cache, t)
  ELSE Await(call, g.cache, "youtube",
             [apiKey |-> IF e.main THEN "main" ELSE "backup"])

\* the search that starts with the backup key
YoutubeStartBackupFirst(call, c, t, e) ==
  LET g == getFromCache(c, YoutubeKey(call.arg.query, call.arg.maxResults), YOUTUBE, t) IN
  IF Truthy(g.value) THEN Done(call, g.cache, Resolved(g.value), TRUE)
  ELSE IF ~e.main /\ ~e.backup THEN Done(call, g.cache, Resolved(Arr(<<>>)), FALSE)
  ELSE Await(call, g.cache, "youtube",
             [apiKey |-> IF e.backup THEN "backup" ELSE "main"])

\* lines 246-261
YoutubeStart(call, c, t, e) ==
  LET g == getFromCache(c, YoutubeKey(call.arg.query, call.arg.maxResults), YOUTUBE, t) IN
  IF Truthy(g.value) THEN Done(call, g.cache, Resolved(g.value), TRUE)
  ELSE IF ~e.main /\ ~e.backup THEN Done(call, g.cache, Resolved(Arr(<<>>)), FALSE)
  ELSE Await(call, g.cache, "youtube",
             [apiKey |-> IF e.main THEN "main" ELSE "backup"])

\* lines 255-273
YoutubeResume(call, c, t, resp, e) ==
  LET result == IF resp.kind = "ok" THEN trySearch(resp.body) ELSE Threw IN
  IF ~result.threw
    THEN Done(call,
              setCache(c, YoutubeKey(call.arg.query, call.arg.maxResults),
                       Arr(result.v), t),
              Resolved(Arr(result.v)), FALSE)
    ELSE IF call.loc.apiKey = "main" /\ e.backup
           THEN Await(call, c, "youtube", [apiKey |-> "backup"])
           ELSE YoutubeEmpty(call, c, t)

-----------------------------------------------------------------------------
(* The calls *)

StartOp(call, c, t, e) ==
  CASE call.op = "version" -> VersionStart(call, c, t)
    [] call.op = "champions" -> ChampionsStart(call, c, t)
    [] call.op = "live" -> LiveStart(call, c, t)
    [] call.op = "abilities" -> AbilitiesStart(call, c, t)
    [] call.op = "skill" -> SkillStart(call, c, t)
    [] call.op = "youtube" -> YoutubeStart(call, c, t, e)

ResumeOp(call, c, t, resp, e) ==
  CASE call.op = "version" -> VersionResume(call, c, t, resp)
    [] call.op = "champions" -> ChampionsResume(call, c, t, resp)
    [] call.op = "live" -> LiveResume(call, c, t, resp)
    [] call.op = "abilities" -> AbilitiesResume(call, c, t, resp)
    [] call.op = "skill" -> SkillResume(call, c, t, resp)
    [] call.op = "youtube" -> YoutubeResume(call, c, t, resp, e)

\* history: the requests a segment issued, the keys it stored first
Logged(r) ==
  /\ vreq' = IF \E n \in 1..Len(r.reqs) : r.reqs[n] = "versions"
                THEN [n |-> vreq.n + 1, last |-> now]
                ELSE vreq
  /\ stored' =
       LET written == {k \in DOMAIN r.cache :
                         k \notin DOMAIN cache \/ cache[k] # r.cache[k]}
       IN [k \in DOMAIN stored \cup written |->
             IF k \in DOMAIN stored THEN stored[k] ELSE r.cache[k]]

\* the segment's effect on the cache, the slot and the histories; a call
\* that has returned frees its slot
Effect(i, r) ==
  /\ cache' = r.cache
  /\ calls' = [calls EXCEPT ![i] = IF r.call.pc = "done" THEN IdleCall ELSE r.call]
  /\ Logged(r)

\* a caller invokes operation op with argument arg
\* (callers are anonymous: the call takes the first free slot)
Free(i) == calls[i].pc = "idle"
Begin(i, op, arg) ==
  LET r == StartOp([IdleCall EXCEPT !.op = op, !.arg = arg], cache, now, env) IN
  /\ Free(i) /\ \A j \in CallIds : j < i => ~Free(j)
  /\ starts < MaxStarts
  /\ Effect(i, r)
  /\ ev' = [type |-> "call", pc |-> "idle", resp |-> Null, call |-> r.call]
  /\ starts' = starts + 1
  /\ UNCHANGED <<now, ticks, family, env, view>>

\* the response to the request call i is awaiting arrives
Resume(i, resp) ==
  LET r == ResumeOp(calls[i], cache, now, resp, env) IN
  /\ ~Free(i)
  /\ Effect(i, r)
  /\ ev' = [type |-> "response", pc |-> calls[i].pc, resp |-> resp, call |-> r.call]
  /\ UNCHANGED <<now, ticks, starts, family, env, view>>

-----------------------------------------------------------------------------
(* What the upstreams may answer *)

\* the roster of champion.json: Object.entries order
Roster ==
  Obj(<<[slug |-> "Garen", key |-> 86, name |-> "Garen"],
        [slug |-> "MonkeyKing", key |-> 62, name |-> "Wukong"]>>)

Versions == {"14.1.1", "14.2.1"}
Failures == {Http(404, Null), NetworkError}

Player(id, name, tag, role) ==
  [championId |-> id, riotUserName |-> name, riotTagLine |-> tag,
   currentRole |-> role]
LiveBody(errors, liveGame) == [errors |-> errors, getLiveGame |-> liveGame]
Game(teamA, teamB) ==
  Ok(LiveBody(Undefined, Obj([teamA |-> teamA, teamB |-> teamB])))

Account == <<"a", "#", "b">>
Me == Player(86, <<"a">>, <<"b">>, Str("mid"))
Foe == Player(62, <<"c">>, <<"d">>, Str("top"))

LiveFailures ==
  {Ok(LiveBody(Undefined, Null)),
   Ok(LiveBody(Arr(<<"upstream error">>), Null)),
   Http(404, Null), Http(429, Str("30")), Http(500, Null), NetworkError}

Passive(description) == Obj([name |-> "Perseverance", description |-> description])
Spell(name, description) ==
  [name |-> name, description |-> description,
   cooldown |-> <<Num(8), Num(8), Num(8), Num(8), Num(8)>>]
BigBrainBodies ==
  {Obj([passive |-> Passive(<<"h", "{", "{", "x", "}", "}", "p">>),
        spells |-> <<Spell("Decisive Strike", <<"q", "{", "{", "a", "}", "}">>),
                     Spell("Courage", <<"w">>),
                     Spell("Judgment", <<"e">>),
                     Spell("Demacian Justice", <<"r">>)>>]),
   Undefined}
DataDragonBodies ==
  {Obj([passive |-> Passive(<<"h", "{", "{", "x", "}", "}", "p">>),
        spells |-> <<[name |-> "Decisive Strike",
                      tooltip |-> <<"{", "{", "a", "}", "}", "}", "{", "{", "b", "}">>,
                      cooldownBurn |-> Chars(<<"8", "/", "7">>)],
                     [name |-> "Courage", tooltip |-> <<"w">>,
                      cooldownBurn |-> Undefined],
                     [name |-> "Judgment",
                      tooltip |-> <<"<", "b", ">", "{", "{", " ", "e", " ", "}", "}", "<", "/", "b", ">">>,
                      cooldownBurn |-> Chars(<<"9">>)],
                     [name |-> "Demacian Justice",
                      tooltip |-> <<"{", "{", "}", "}", "{", "r", "}", "}", "}">>,
                      cooldownBurn |-> Chars(<<"1", "2", "0">>)]>>]),
   Obj([passive |-> Undefined,
        spells |-> <<[name |-> "Decisive Strike", tooltip |-> <<"q">>,
                      cooldownBurn |-> Undefined]>>]),
   Undefined}

ActiveCells(letters) == [i \in 1..Len(letters) |-> Cell(letters[i], TRUE)]
SkillPages ==
  {Page(ActiveCells(<<"Q", "W", "E", "Q", "Q", "R">>)),
   Page(<<Cell("Q", TRUE), Cell("W", FALSE), Cell("x", TRUE)>>),
   Null}
UggPages ==
  {UggPage(<<Row("Q", <<1, 4, 5>>), Row("E", <<2, 19>>), Row("", <<3>>),
             Row("R", <<6, 1>>)>>),
   UggPage(<<Row("Q", <<1, 2, 3, 4, 5, 6>>)>>),
   Obj(<<>>)}

Video(kind, snippet) ==
  [id |-> Obj([kind |-> kind, videoId |-> "v1"]), snippet |-> snippet]
Snippet == Obj([title |-> "guide"])
YoutubeBodies ==
  {Obj([items |-> Arr(<<Video("youtube#video", Snippet),
                        Video("youtube#channel", Undefined),
                        [id |-> Undefined, snippet |-> Snippet]>>)]),
   Obj([items |-> Arr(<<Video("youtube#video", Undefined)>>)]),
   Obj([items |-> Undefined]),
   Undefined}

\* what each endpoint may answer to the call awaiting it
Responses(call) ==
  CASE call.pc = "versions" ->
         IF call.op = "version"
           THEN {Ok(<<v>>) : v \in Versions} \cup {Ok(<<>>)} \cup Failures
           ELSE {Ok(<<"14.1.1">>), NetworkError}
    [] call.pc = "champion" ->
         IF call.op = "champions"
           THEN {Ok(Roster)} \cup Failures
           ELSE {Ok(Roster), NetworkError}
    [] call.pc = "live" -> {Game(<<Foe>>, <<Me>>)} \cup LiveFailures
    [] call.pc = "bigbrain" -> {Ok(b) : b \in BigBrainBodies} \cup {Http(404, Null)}
    [] call.pc = "ddragon" -> {Ok(b) : b \in DataDragonBodies} \cup Failures
    [] call.pc = "leagueofgraphs" -> {Ok(p) : p \in SkillPages} \cup {Http(404, Null)}
    [] call.pc = "ugg" -> {Ok(p) : p \in UggPages} \cup Failures
    [] call.pc = "youtube" ->
         {Ok(b) : b \in YoutubeBodies} \cup {Http(403, Null), NetworkError}

-----------------------------------------------------------------------------
(* The data layer under concurrent callers.  A run exercises the           *)
(* operations of one family; the clock advances by one millisecond or by   *)
(* the TTL of the family's entries, which reaches both sides of the expiry *)

Families == {"reference", "live", "abilities", "skill", "youtube"}
FamilyTtl(f) ==
  CASE f = "live" -> UGG [] f = "youtube" -> YOUTUBE [] OTHER -> DATA_DRAGON
Environments(f) ==
  IF f = "youtube"
    THEN {Keys(m, b) : m \in BOOLEAN, b \in BOOLEAN}
    ELSE {Keys(TRUE, TRUE)}

ChampionNames == {"wukong", "Teemo"}
Queries == {[query |-> "garen guide", maxResults |-> 5]}

Init == \E f \in Families : \E e \in Environments(f) : InitWith(f, e)

Tick == Advance({1, FamilyTtl(family)})

BeginVersion ==
  /\ family = "reference"
  /\ \E i \in CallIds : Begin(i, "version", Null)
BeginChampions ==
  /\ family = "reference"
  /\ \E i \in CallIds, v \in Versions : Begin(i, "champions", Str(v))
BeginLive ==
  /\ family = "live"
  /\ \E i \in CallIds : Begin(i, "live", Account)
BeginAbilities ==
  /\ family = "abilities"
  /\ \E i \in CallIds, name \in ChampionNames : Begin(i, "abilities", name)
BeginSkillOrder ==
  /\ family = "skill"
  /\ \E i \in CallIds, forceRefresh \in BOOLEAN :
       Begin(i, "skill", [championName |-> "Garen", forceRefresh |-> forceRefresh])
BeginYouTube ==
  /\ family = "youtube"
  /\ \E i \in CallIds, q \in Queries : Begin(i, "youtube", q)
Respond ==
  \E i \in CallIds :
    /\ ~Free(i)
    /\ \E resp \in Responses(calls[i]) : Resume(i, resp)

Next ==
  \/ Tick \/ BeginVersion \/ BeginChampions \/ BeginLive \/ BeginAbilities
  \/ BeginSkillOrder \/ BeginYouTube \/ Respond

Spec == Init /\ [][Next]_vars

\* the callers of fetchLiveGame alone
InitLive == InitWith("live", Keys(TRUE, TRUE))
NextLiveCalls == Tick \/ BeginLive \/ Respond
SpecLiveCalls == InitLive /\ [][NextLiveCalls]_vars

\* the callers of fetchChampionAbilities alone
InitAbilities == InitWith("abilities", Keys(TRUE, TRUE))
NextAbilities == Tick \/ BeginAbilities \/ Respond
SpecAbilities == InitAbilities /\ [][NextAbilities]_vars

\* the callers of fetchSkillOrder and of searchYouTubeVideos alone
InitEnrichment ==
  \E f \in {"skill", "youtube"} : \E e \in Environments(f) : InitWith(f, e)
NextEnrichment == Tick \/ BeginSkillOrder \/ BeginYouTube \/ Respond
SpecEnrichment == InitEnrichment /\ [][NextEnrichment]_vars

-----------------------------------------------------------------------------
(* fetchLiveGame alone: one call on an empty cache, for every account       *)
(* identifier and every pair of rosters within the bounds                  *)

MaxIdLen == 4
MaxTeam == 2

RECURSIVE SeqsUpTo(_, _)
SeqsUpTo(S, n) ==
  IF n = 0 THEN {<<>>}
  ELSE LET shorter == SeqsUpTo(S, n - 1) IN
       shorter \cup {Append(s, x) : s \in shorter, x \in S}

AccountIds == SeqsUpTo({"a", "B", "#"}, MaxIdLen) \ {<<>>}

PlayerPool ==
  {Player(86, <<"a">>, <<"b">>, Str("TOP")),
   Player(62, <<"A">>, <<"B">>, Str("adc")),
   Player(62, <<"c">>, <<"d">>, Str("supp")),
   Player(7, <<"c">>, <<"d">>, Null),
   Player(86, <<"c">>, <<"d">>, Str("carry"))}
Teams == SeqsUpTo(PlayerPool, MaxTeam)

\* every pair of rosters for the account a#B, one match for the others
LiveResponses(call) ==
  CASE call.pc = "versions" -> {Ok(<<"14.1.1">>), Http(404, Null)}
    [] call.pc = "champion" -> {Ok(Roster), NetworkError}
    [] call.pc = "live" ->
         IF toLowerCase(call.arg) = Account
           THEN {Game(teamA, teamB) : teamA \in Teams, teamB \in Teams}
                  \cup LiveFailures
           ELSE {Game(<<Player(86, call.loc.riotUserName, call.loc.riotTagLine,
                               Str("mid"))>>, <<Foe>>),
                 Ok(LiveBody(Undefined, Null))}

LiveCall == starts = 0 /\ \E account \in AccountIds : Begin(1, "live", account)
LiveRespond ==
  /\ ~Free(1)
  /\ \E resp \in LiveResponses(calls[1]) : Resume(1, resp)

NextLive == LiveCall \/ LiveRespond

SpecLive == InitLive /\ [][NextLive]_vars

-----------------------------------------------------------------------------
(* The cache key and the TTL of each operation's call                      *)

C1_Key(call) ==
  CASE call.op = "version" -> VersionKey
    [] call.op = "champions" -> ChampionKey(call.arg)
    [] call.op = "live" -> LiveKey(call.arg)
    [] call.op = "abilities" -> AbilitiesKey(call.arg)
    [] call.op = "skill" -> SkillKey(call.arg.championName)
    [] call.op = "youtube" -> YoutubeKey(call.arg.query, call.arg.maxResults)
C1_Ttl(call) ==
  CASE call.op = "live" -> UGG
    [] call.op = "youtube" -> YOUTUBE
    [] OTHER -> DATA_DRAGON
C1_ReadsCache(call) == ~(call.op = "skill" /\ call.arg.forceRefresh)

\* the step is the start of a call that consults the cache
C1_CallStarts == ev'.type = "call" /\ C1_ReadsCache(ev'.call)
\* a call that has not returned is awaiting the request it issued
C1_Requested(call) == call.pc # "done"

-----------------------------------------------------------------------------
\* C1 (as stated): once a call has stored its result (a truthy value), every
\* later call with the same arguments made within the TTL of that store
\* returns that stored value without a request, and a call made after the
\* TTL of that store has elapsed, when nothing was stored since it elapsed
\* (the first such call), issues a request.
C1_Idempotent ==
  [][(C1_CallStarts /\ C1_Key(ev'.call) \in DOMAIN stored
      /\ Truthy(stored[C1_Key(ev'.call)].data)) =>
       LET first == stored[C1_Key(ev'.call)] IN
       IF now - first.timestamp <= C1_Ttl(ev'.call)
         THEN /\ ~C1_Requested(ev'.call)
              /\ ev'.call.res = Resolved(first.data)
         ELSE (C1_Key(ev'.call) \in DOMAIN cache =>
                 cache[C1_Key(ev'.call)].timestamp
                   <= first.timestamp + C1_Ttl(ev'.call))
              => C1_Requested(ev'.call)
    ]_vars

\* the entry of the call's key is in the cache, truthy and at most TTL old
C1_Fresh(call) ==
  /\ C1_Key(call) \in DOMAIN cache
  /\ Truthy(cache[C1_Key(call)].data)
  /\ now - cache[C1_Key(call)].timestamp <= C1_Ttl(call)

\* C1 (amended): a call that consults the cache returns the value of the
\* most recent store on its key, without a request, exactly when that entry
\* is still in the cache, is truthy and is at most TTL old; otherwise, once
\* the key has been stored, the call issues a request.
C1_LatestStore ==
  [][C1_CallStarts =>
       /\ C1_Fresh(ev'.call) =>
            /\ ~C1_Requested(ev'.call)
            /\ ev'.call.hit
            /\ ev'.call.res = Resolved(cache[C1_Key(ev'.call)].data)
            /\ vreq' = vreq
            /\ stored[C1_Key(ev'.call)].timestamp
                 <= cache[C1_Key(ev'.call)].timestamp
       /\ (~C1_Fresh(ev'.call) /\ C1_Key(ev'.call) \in DOMAIN stored)
            => C1_Requested(ev'.call)
    ]_vars

\* a call has just been answered from the cache, after the clock advanced,
\* with a value that replaced an earlier store on the same key
C1_Witness ==
  /\ ev.type = "call" /\ ev.call.hit /\ now > 0
  /\ ev.call.res = Resolved(cache[C1_Key(ev.call)].data)
  /\ stored[C1_Key(ev.call)].timestamp < cache[C1_Key(ev.call)].timestamp

\* C2: at most one request to the versions endpoint is issued within any
\* window of one hour, whatever the interleaving of the callers.
C2_OncePerWindow ==
  [][(vreq'.n > vreq.n /\ vreq.n > 0) => now - vreq.last >= DATA_DRAGON]_vars

-----------------------------------------------------------------------------
C3_Valid(key, ttlMs) ==
  key \in DOMAIN cache /\ now - cache[key].timestamp <= ttlMs


\* C3: getFromCache returns the stored value exactly when an entry for the
\* key exists and now - timestamp <= ttl, otherwise null; an entry found
\* expired is deleted by that read; an entry disappears only through an
\* expired read of its key and changes only through a set on its key.
C3_LazyEviction ==
  [][ /\ ev'.type = "get" =>
           /\ ev'.value = (IF C3_Valid(ev'.key, ev'.ttl)
                             THEN cache[ev'.key].data ELSE Null)
           /\ ev'.key \in DOMAIN cache' <=> C3_Valid(ev'.key, ev'.ttl)
      /\ \A k \in DOMAIN cache :
           /\ k \notin DOMAIN cache' =>
                /\ ev'.type = "get" /\ ev'.key = k
                /\ now - cache[k].timestamp > ev'.ttl
           /\ (k \in DOMAIN cache' /\ cache'[k] # cache[k]) =>
                /\ ev'.type = "set" /\ ev'.key = k
                /\ cache'[k] = [data |-> ev'.data, timestamp |-> now]
      /\ \A k \in DOMAIN cache' \ DOMAIN cache :
           /\ ev'.type = "set" /\ ev'.key = k
           /\ cache'[k] = [data |-> ev'.data, timestamp |-> now]
    ]_vars

\* an expired entry has just been evicted by a read, while another entry,
\* older than the shortest TTL, is still stored
C3_Witness ==
  /\ ev.type = "get" /\ ev.had /\ ev.value = Null
  /\ ev.key \notin DOMAIN cache
  /\ \E k \in DOMAIN cache : now - cache[k].timestamp > UGG


\* a call of fetchLiveGame has just resolved; its rosters against the teams
\* as the upstream sent them
C4_Returned ==
  /\ ev.type = "response" /\ ev.call.op = "live"
  /\ ev.call.pc = "done" /\ ev.call.res.st = "resolved"
C4_Participant(e) ==
  [championId |-> e.championId, summonerName |-> e.summonerName, role |-> e.role]
C4_RawParticipant(p) ==
  [championId |-> p.championId,
   summonerName |-> p.riotUserName \o <<"#">> \o p.riotTagLine,
   role |-> p.currentRole]
C4_SameParticipants(roster, raw) ==
  /\ Len(roster) = Len(raw)
  /\ \A i \in 1..Len(raw) :
       Cardinality({j \in 1..Len(roster) : C4_Participant(roster[j]) = C4_RawParticipant(raw[i])})
         = Cardinality({j \in 1..Len(raw) : C4_RawParticipant(raw[j]) = C4_RawParticipant(raw[i])})
C4_Holds(raw, gameName, tagLine) ==
  \E i \in 1..Len(raw) :
    /\ toLowerCase(raw[i].riotUserName) = toLowerCase(gameName)
    /\ toLowerCase(raw[i].riotTagLine) = toLowerCase(tagLine)
C4_Priority(role) ==
  IF role # Null /\ lowerWord(role.v) \in DOMAIN roleOrder
    THEN roleOrder[lowerWord(role.v)]
    ELSE 0

\* C4: the ally roster returned by fetchLiveGame holds exactly the
\* participants of the raw team that contains the requesting player, the
\* enemy roster exactly those of the other raw team, and in each roster the
\* participants with a role of the priority table appear in non-decreasing
\* priority top=1, jungle=2, mid=3, adc=4, supp=5.
C4_PartitionAndOrder ==
  C4_Returned =>
    LET loc == ev.call.loc
        result == ev.call.res.v.v
    IN /\ \/ /\ C4_Holds(loc.teamA, loc.riotUserName, loc.riotTagLine)
             /\ C4_SameParticipants(result.allyTeam, loc.teamA)
             /\ C4_SameParticipants(result.enemyTeam, loc.teamB)
          \/ /\ C4_Holds(loc.teamB, loc.riotUserName, loc.riotTagLine)
             /\ C4_SameParticipants(result.allyTeam, loc.teamB)
             /\ C4_SameParticipants(result.enemyTeam, loc.teamA)
       /\ \A roster \in {result.allyTeam, result.enemyTeam} :
            \A i \in 1..Len(roster), j \in 1..Len(roster) :
              (i < j /\ C4_Priority(roster[i].role) > 0 /\ C4_Priority(roster[j].role) > 0)
                => C4_Priority(roster[i].role) <= C4_Priority(roster[j].role)

\* the player was found in teamB, both teams hold two participants and the
\* sort has moved the ally that arrived first
C4_Witness ==
  /\ C4_Returned
  /\ ~ev.call.loc.isTeamA
  /\ Len(ev.call.loc.teamA) = 2 /\ Len(ev.call.loc.teamB) = 2
  /\ C4_Participant(ev.call.res.v.v.allyTeam[1]) # C4_RawParticipant(ev.call.loc.teamB[1])
  /\ C4_Priority(ev.call.res.v.v.allyTeam[1].role) > 0

\* C5: in each roster returned by fetchLiveGame, every participant whose
\* role is missing or outside the priority table appears after every
\* participant with a role of the table, supp included.
C5_UnknownLast ==
  C4_Returned =>
    \A roster \in {ev.call.res.v.v.allyTeam, ev.call.res.v.v.enemyTeam} :
      \A i \in 1..Len(roster), j \in 1..Len(roster) :
        (C4_Priority(roster[i].role) = 0 /\ C4_Priority(roster[j].role) > 0) => j < i

\* the answers of the live-match upstream and the failure they lead to
C6_LiveAnswered == ev.type = "response" /\ ev.pc = "live"
C6_NoMatch(resp) == resp.kind = "ok" /\ ~Truthy(resp.body.getLiveGame)
C6_NotFound(resp) == resp.kind = "http" /\ resp.status = 404
C6_Rejected(call) ==
  /\ call.pc = "done"
  /\ call.res = Rejected(Error("Not currently in game"))

\* C6 (as stated): a live-match request answered with HTTP 404, or with a
\* response whose getLiveGame is null, fails with 'Not currently in game'
\* and leaves no live_game entry for the account, so that the next call
\* contacts the upstream.
C6_NotInGame ==
  (C6_LiveAnswered /\ (C6_NotFound(ev.resp) \/ C6_NoMatch(ev.resp))) =>
    /\ C6_Rejected(ev.call)
    /\ LiveKey(ev.call.arg) \notin DOMAIN cache

\* C6 (amended): a live-match request answered with HTTP 404, or with a
\* response without errors payload whose getLiveGame is null, fails with
\* 'Not currently in game' and the failing call writes nothing to the cache;
\* a call for an account that has no live_game entry contacts the upstream.
C6_NotInGameNoErrors ==
  [][ /\ (ev'.type = "response" /\ ev'.pc = "live"
          /\ (C6_NotFound(ev'.resp)
              \/ (C6_NoMatch(ev'.resp) /\ ~Truthy(ev'.resp.body.errors))))
         => (C6_Rejected(ev'.call) /\ cache' = cache)
      /\ (ev'.type = "call" /\ ev'.call.op = "live"
          /\ LiveKey(ev'.call.arg) \notin DOMAIN cache
          /\ hasTagLine(ev'.call.arg))
         => ev'.call.pc = "live"
    ]_vars

\* a second call for the account has been told that no match is running
C6_Witness ==
  /\ C6_LiveAnswered /\ C6_NoMatch(ev.resp) /\ ~Truthy(ev.resp.body.errors)
  /\ C6_Rejected(ev.call)
  /\ starts >= 2
  /\ LiveKey(ev.call.arg) \notin DOMAIN cache

C7_RateLimited(resp) == resp.kind = "http" /\ resp.status = 429 /\ Truthy(resp.hint)

C8_LastHash(accountName) ==
  CHOOSE n \in 1..Len(accountName) :
    accountName[n] = "#" /\ \A j \in (n + 1)..Len(accountName) : accountName[j] # "#"

\* C8: the game name sent upstream is the account identifier up to its last
\* '#', the tag line is what follows that '#'.
C8_SplitAtLast ==
  (ev.type = "call" /\ ev.call.op = "live" /\ ev.call.pc = "live") =>
    /\ ev.call.loc.riotUserName
         = SubSeq(ev.call.arg, 1, C8_LastHash(ev.call.arg) - 1)
    /\ ev.call.loc.riotTagLine
         = SubSeq(ev.call.arg, C8_LastHash(ev.call.arg) + 1, Len(ev.call.arg))

\* C9: when the champion resolves and both the primary ability source and
\* the reference-CDN fallback fail, fetchChampionAbilities resolves with a
\* list instead of rejecting.
C9_NeverRejects ==
  (ev.type = "response" /\ ev.pc = "ddragon" /\ ev.resp.kind # "ok") =>
    /\ ev.call.pc = "done"
    /\ ev.call.res.st = "resolved"
    /\ ev.call.res.v.t = "arr"

\* C10: whatever the upstreams answer (failures, non-2xx statuses, bodies
\* that are not pages or lack their fields), fetchSkillOrder and
\* searchYouTubeVideos, once they return, have resolved with a list.
C10_AlwaysList ==
  (ev.type \in {"call", "response"} /\ ev.call.op \in {"skill", "youtube"}
   /\ ev.call.pc = "done") =>
    /\ ev.call.res.st = "resolved"
    /\ ev.call.res.v.t = "arr"

\* the fallback scrape has failed after the first one, and the call has
\* resolved all the same
C10_Witness ==
  /\ ev.type = "response" /\ ev.call.op = "skill" /\ ev.pc = "ugg"
  /\ ev.resp.kind # "ok"
  /\ ev.call.pc = "done" /\ ev.call.res = Resolved(Arr(<<>>))

\* a call of fetchSkillOrder has just returned (at its start or on a response)
C11_SkillReturned ==
  ev.type \in {"call", "response"} /\ ev.call.op = "skill" /\ ev.call.pc = "done"

\* C11: after a call of fetchSkillOrder that returns an empty list the cache
\* holds no skill_order entry with an empty list for the champion, and a
\* non-forced call never returns an empty list straight from the cache (it
\* re-attempts the network sources).
C11_NeverCachesEmpty ==
  C11_SkillReturned =>
    LET key == SkillKey(ev.call.arg.championName) IN
    /\ ev.call.res = Resolved(Arr(<<>>)) =>
         ~(key \in DOMAIN cache /\ cache[key].data = Arr(<<>>))
    /\ (ev.type = "call" /\ ~ev.call.arg.forceRefresh) =>
         ev.call.res # Resolved(Arr(<<>>))

\* the number of entries of a list that equal skill
C12_Count(order, skill) ==
  Cardinality({i \in 1..Len(order) : order[i] = skill})

\* the u.gg request of a call has just been answered with a page, which
\* parseUggSkillOrder parsed and completed
C12_Repaired ==
  /\ ev.type = "response" /\ ev.call.op = "skill" /\ ev.pc = "ugg"
  /\ ev.resp.kind = "ok" /\ ev.resp.body.t = "html"
  /\ ev.call.pc = "done"

\* C12: whenever the result of fetchSkillOrder comes out of the repair step
\* of the u.gg scrape, whatever rows the page lists, it holds exactly 5 Q,
\* 5 W, 5 E and 3 R.
C12_ExactCounts ==
  C12_Repaired =>
    /\ ev.call.res.st = "resolved"
    /\ \A skill \in skillLetters :
         C12_Count(ev.call.res.v.v, skill) = targetCounts[skill]

\* C13: every value returned by fetchSkillOrder (from the cache, from the
\* LeagueOfGraphs scrape, from the u.gg scrape or its literal fallback, or
\* after both requests failed) is a list that is empty or has at least 6
\* entries, each of them one of Q, W, E, R.
C13_EmptyOrSix ==
  C11_SkillReturned =>
    /\ ev.call.res.st = "resolved"
    /\ ev.call.res.v.t = "arr"
    /\ LET order == ev.call.res.v.v IN
       /\ Len(order) = 0 \/ Len(order) >= 6
       /\ \A i \in 1..Len(order) : order[i] \in skillLetters

\* a call has just been answered from the cache with the six entries that
\* the LeagueOfGraphs scrape of an earlier call had extracted
C13_Witness ==
  /\ C11_SkillReturned /\ ev.type = "call" /\ ev.call.hit
  /\ ev.call.res.st = "resolved" /\ Len(ev.call.res.v.v) = 6

\* the primary source or the reference CDN has just answered and the call
\* has resolved with the list built from that answer
C14_Built ==
  /\ ev.type = "response" /\ ev.call.op = "abilities"
  /\ ev.pc \in {"bigbrain", "ddragon"}
  /\ ev.call.pc = "done" /\ ev.call.res.st = "resolved"

\* a call has just been answered with a list kept in the cache
C14_Cached ==
  /\ ev.type = "call" /\ ev.call.op = "abilities"
  /\ ev.call.pc = "done" /\ ev.call.hit

\* the place of a key in the order P, Q, W, E, R; 0 for any other key
C14_Rank(key) ==
  CASE key = Str("P") -> 1 [] key = Str("Q") -> 2 [] key = Str("W") -> 3
    [] key = Str("E") -> 4 [] key = Str("R") -> 5 [] OTHER -> 0

\* every key is one of P, Q, W, E, R, and the keys follow that order strictly
\* (so that P, if there, is first and no key occurs twice)
C14_Ordered(list) ==
  /\ \A i \in 1..Len(list) : C14_Rank(list[i].key) > 0
  /\ \A i, j \in 1..Len(list) :
       i < j => C14_Rank(list[i].key) < C14_Rank(list[j].key)

\* C14: for a champion name that resolves, on the primary and on the
\* fallback path (and when the list comes from the cache), the list returned
\* by fetchChampionAbilities has an entry with key P exactly when the source
\* data has a passive, placed first; the other entries have keys among Q, W,
\* E, R in that order, one entry per spell of the source; no key occurs twice
\* and no key is outside P, Q, W, E, R.
C14_SlotOrder ==
  /\ C14_Cached => C14_Ordered(ev.call.res.v.v)
  /\ C14_Built =>
       LET list == ev.call.res.v.v
           source == ev.resp.body.v
           passives == {i \in 1..Len(list) : list[i].key = Str("P")}
       IN /\ C14_Ordered(list)
          /\ Cardinality(passives) = (IF Truthy(source.passive) THEN 1 ELSE 0)
          /\ Len(list) = Cardinality(passives) + Len(source.spells)

\* the fallback path has built a list of a passive and four spells
C14_Witness ==
  /\ C14_Built /\ ev.pc = "ddragon"
  /\ Len(ev.call.res.v.v) = 5 /\ ev.call.res.v.v[1].key = Str("P")

\* the search request of a call failed: no response, a non-2xx status, or a
\* body that trySearch cannot read
C15_Failed(resp) == resp.kind # "ok" \/ trySearch(resp.body).threw

\* the step issues a search request: a call has started and missed the
\* cache, or a call whose request was answered issues another one
C15_FirstRequest ==
  ev'.type = "call" /\ ev'.call.op = "youtube" /\ ev'.call.pc = "youtube"
C15_NextRequest ==
  ev'.type = "response" /\ ev'.call.op = "youtube" /\ ev'.call.pc = "youtube"
C15_Answered ==
  ev'.type = "response" /\ ev'.call.op = "youtube" /\ ev'.pc = "youtube"

\* C15: within one call of searchYouTubeVideos that misses the cache, the
\* first request uses the primary key when it is configured, the backup key
\* otherwise (and then it is configured); a further request is issued only
\* by a call whose request with the primary key has failed, only with the
\* backup key and only when that key is configured; a call whose request
\* succeeded, or whose request with the backup key was answered, issues no
\* further request.  So no key is tried twice and a call issues at most two
\* requests.
C15_KeyFallback ==
  [][/\ C15_FirstRequest =>
          /\ ev'.call.loc.apiKey = (IF env.main THEN "main" ELSE "backup")
          /\ env.main \/ env.backup
     /\ C15_NextRequest =>
          /\ ev'.call.loc.apiKey = "backup" /\ env.backup /\ env.main
          /\ C15_Failed(ev'.resp)
          /\ \E i \in CallIds :
               /\ calls[i].op = "youtube" /\ calls[i].pc = "youtube"
               /\ calls[i].loc.apiKey = "main"
               /\ calls'[i] = ev'.call
     /\ (C15_Answered /\ ~C15_Failed(ev'.resp)) => ev'.call.pc = "done"
    ]_vars

\* the request with the primary key has failed and the call has issued its
\* request with the backup key
C15_Witness ==
  /\ ev.type = "response" /\ ev.call.op = "youtube" /\ ev.pc = "youtube"
  /\ ev.call.pc = "youtube" /\ ev.call.loc.apiKey = "backup"

C16_Key(call) == YoutubeKey(call.arg.query, call.arg.maxResults)

\* the step is the answer to the last request a call can make (its key
\* failed and no further key is left): the call returns the empty list and
\* stores it
C16_AllFailed ==
  C15_Answered /\ C15_Failed(ev'.resp) /\ ev'.call.pc = "done"
C16_EmptyStored ==
  /\ ev'.call.res = Resolved(Arr(<<>>))
  /\ C16_Key(ev'.call) \in DOMAIN cache'
  /\ cache'[C16_Key(ev'.call)] = [data |-> Arr(<<>>), timestamp |-> now]

\* the step is a call that returns the empty list with no request
C16_EmptyFromCache ==
  /\ ev'.call.pc = "done" /\ ev'.call.hit
  /\ ev'.call.res = Resolved(Arr(<<>>))
  /\ cache' = cache

\* C16 (as stated): when every configured key has failed, the call returns
\* the empty list and stores it, and every search with the same query and
\* maxResults made within 24 hours of that store returns the empty list
\* without a request.
C16_EmptyFor24Hours ==
  [][/\ C16_AllFailed => C16_EmptyStored
     /\ (/\ ev'.type = "call" /\ ev'.call.op = "youtube"
         /\ C16_Key(ev'.call) \in DOMAIN stored
         /\ stored[C16_Key(ev'.call)].data = Arr(<<>>)
         /\ now - stored[C16_Key(ev'.call)].timestamp <= YOUTUBE)
        => C16_EmptyFromCache
    ]_vars

\* C16 (amended): when every configured key has failed, the call returns the
\* empty list and stores it under the current time; a search that finds the
\* empty list as the cache entry of its query and maxResults, at most 24
\* hours old, returns the empty list without a request and leaves the cache
\* as it is (the entry stays until a call that had already missed stores
\* over it, or until it is found expired).
C16_EmptyWhileEntry ==
  [][/\ C16_AllFailed => C16_EmptyStored
     /\ (/\ ev'.type = "call" /\ ev'.call.op = "youtube"
         /\ C16_Key(ev'.call) \in DOMAIN cache
         /\ cache[C16_Key(ev'.call)].data = Arr(<<>>)
         /\ now - cache[C16_Key(ev'.call)].timestamp <= YOUTUBE)
        => C16_EmptyFromCache
    ]_vars

\* a search made exactly 24 hours after the empty list was stored has been
\* answered with it from the cache
C16_Witness ==
  /\ ev.type = "call" /\ ev.call.op = "youtube" /\ ev.call.hit
  /\ ev.call.res = Resolved(Arr(<<>>))
  /\ C16_Key(ev.call) \in DOMAIN cache
  /\ now - cache[C16_Key(ev.call)].timestamp = YOUTUBE

\* C17: when neither the primary nor the backup key is configured and the
\* cache has no entry for the query, searchYouTubeVideos returns an empty
\* list, issues no request and leaves the cache unchanged.
C17_NoKeysNoRequest ==
  [][(/\ ev'.type = "call" /\ ev'.call.op = "youtube"
      /\ ~env.main /\ ~env.backup
      /\ C16_Key(ev'.call) \notin DOMAIN cache)
     => /\ ev'.call.pc = "done"
        /\ ev'.call.res = Resolved(Arr(<<>>))
        /\ cache' = cache
    ]_vars

\* without any key, a second search has returned the empty list and the
\* cache is still empty
C17_Witness ==
  /\ ev.type = "call" /\ ev.call.op = "youtube"
  /\ ~env.main /\ ~env.backup /\ starts = 2
  /\ ev.call.pc = "done" /\ ev.call.res = Resolved(Arr(<<>>))
  /\ cache = EmptyCache

-----------------------------------------------------------------------------
(* The components that call the data layer: ChampionDetails (given its     *)
(* championName by the page that renders it) and the account handlers of   *)
(* LivePage.  A fetch that is answered from the cache settles in the same  *)
(* step (its continuation is a microtask); a fetch that has issued a       *)
(* request settles when the last response of its call arrives.  The error  *)
(* banner, localStorage and the learning counters are left out.            *)

\* the champions a page can hand to ChampionDetails, the saved accounts
ViewChampions == {"Garen", "Wukong"}
OtherAccount == <<"c", "#", "d">>
SavedAccounts == {Account, OtherAccount}

\* `${championName} guide abilities League of Legends`, 3
guideQuery(championName) ==
  [query |-> <<championName, " guide abilities League of Legends">>,
   maxResults |-> 3]

\* a fetch waiting for its call: the async function, the championName or
\* accountName it closed over, and the selectedChampionId of its closure
Wait(fn, of, selectedChampionId) ==
  [fn |-> fn, of |-> of, selectedChampionId |-> selectedChampionId]

\* ChampionDetails.fetchAbilities after its await (lines 14-21)
afterFetchAbilities(v, championName, res) ==
  [v EXCEPT !.abilities =
              Shown(championName, IF res.st = "resolved" THEN res.v ELSE Arr(<<>>)),
            !.loadingAbilities = FALSE]

\* ChampionDetails.fetchVideos after its await, without myChampionName
\* (lines 29-47)
afterFetchVideos(v, championName, res) ==
  [v EXCEPT !.videos =
              Shown(championName,
                    [guide |-> IF res.st = "resolved" /\ Len(res.v.v) > 0
                                 THEN Obj(res.v.v[1]) ELSE Null,
                     matchup |-> Null]),
            !.loadingVideos = FALSE]

\* LivePage.fetchLiveGameData after its await (lines 110-125)
afterFetchLiveGameData(v, accountName, selectedChampionId, res) ==
  IF res.st = "resolved"
    THEN [v EXCEPT !.liveGame = Shown(accountName, res.v),
                   !.selectedChampionId =
                      IF ~Truthy(selectedChampionId) /\ Len(res.v.v.allyTeam) > 0
                        THEN Num(res.v.v.allyTeam[1].championId)
                        ELSE v.selectedChampionId]
    ELSE [v EXCEPT !.liveGame = Shown(accountName, Null),
                   !.selectedChampionId = Null]

Settle(v, wait, res) ==
  CASE wait.fn = "fetchAbilities" -> afterFetchAbilities(v, wait.of, res)
    [] wait.fn = "fetchVideos" -> afterFetchVideos(v, wait.of, res)
    [] wait.fn = "fetchLiveGameData" ->
         afterFetchLiveGameData(v, wait.of, wait.selectedChampionId, res)

\* the async function calls operation op: the outcome of the call's first
\* segment, and the component once the function has run up to its await
Invoke(c, op, arg) == StartOp([IdleCall EXCEPT !.op = op, !.arg = arg], c, now, env)
Awaiting(v, i, r, wait) ==
  IF r.call.pc = "done" THEN Settle(v, wait, r.call.res)
  ELSE [v EXCEPT !.waits[i] = wait]
Slot(r) == IF r.call.pc = "done" THEN IdleCall ELSE r.call

ViewFree == {i \in Slots : calls[i].pc = "idle"}
FirstFree(S) == CHOOSE i \in S : \A j \in S : i <= j

\* the page hands another championName to ChampionDetails: the effect of
\* lines 50-55 runs fetchAbilities() and fetchVideos()
SelectChampion ==
  /\ family = "details"
  /\ starts < MaxStarts
  /\ Cardinality(ViewFree) >= 2
  /\ \E championName \in ViewChampions :
       LET i == FirstFree(ViewFree)
           j == FirstFree(ViewFree \ {i})
           a == Invoke(cache, "abilities", championName)
           y == Invoke(a.cache, "youtube", guideQuery(championName))
           v1 == [view EXCEPT !.championName = Str(championName),
                              !.loadingAbilities = TRUE]
           v2 == Awaiting(v1, i, a, Wait("fetchAbilities", Str(championName), Null))
           v3 == [v2 EXCEPT !.loadingVideos = TRUE]
       IN /\ view.championName # Str(championName)
          /\ view' = Awaiting(v3, j, y, Wait("fetchVideos", Str(championName), Null))
          /\ cache' = y.cache
          /\ calls' = [calls EXCEPT ![i] = Slot(a), ![j] = Slot(y)]
          /\ Logged([cache |-> y.cache, reqs |-> a.reqs \o y.reqs])
          /\ ev' = [type |-> "select", of |-> Str(championName)]
  /\ starts' = starts + 1
  /\ UNCHANGED <<now, ticks, family, env>>

\* LivePage.handleAccountChange(accountName) with an account of the list
\* (lines 152-158)
SelectAccount ==
  /\ family = "page"
  /\ starts < MaxStarts
  /\ ViewFree # {}
  /\ \E accountName \in view.accounts :
       LET i == FirstFree(ViewFree)
           r == Invoke(cache, "live", accountName)
           v1 == [view EXCEPT !.selectedAccount = accountName]
       IN /\ view' = Awaiting(v1, i, r,
                                Wait("fetchLiveGameData", accountName,
                                     view.selectedChampionId))
          /\ cache' = r.cache
          /\ calls' = [calls EXCEPT ![i] = Slot(r)]
          /\ Logged(r)
          /\ ev' = [type |-> "select", of |-> accountName]
  /\ starts' = starts + 1
  /\ UNCHANGED <<now, ticks, family, env>>

\* LivePage.handleAccountChange('') : the search box was emptied
ClearAccount ==
  /\ family = "page"
  /\ view.selectedAccount # <<>>
  /\ view' = [view EXCEPT !.selectedAccount = <<>>]
  /\ ev' = [type |-> "clear"]
  /\ UNCHANGED <<now, ticks, cache, calls, starts, vreq, stored, family, env>>

\* LivePage.handleDeleteAccount, confirmed (lines 174-187)
DeleteAccount ==
  /\ family = "page"
  /\ view.selectedAccount # <<>>
  /\ view' = [view EXCEPT !.accounts = @ \ {view.selectedAccount},
                           !.selectedAccount = <<>>,
                           !.liveGame = Shown(Null, Null),
                           !.selectedChampionId = Null]
  /\ ev' = [type |-> "delete"]
  /\ UNCHANGED <<now, ticks, cache, calls, starts, vreq, stored, family, env>>

\* what the upstreams answer to the calls of the components
ViewResponses(call) ==
  CASE call.pc = "versions" -> {Ok(<<"14.1.1">>)}
    [] call.pc = "champion" -> {Ok(Roster)}
    [] call.pc = "live" -> {Game(<<Foe>>, <<Me>>), Http(404, Null)}
    [] call.pc = "bigbrain" ->
         {Ok(b) : b \in BigBrainBodies \ {Undefined}} \cup {Http(404, Null)}
    [] call.pc = "ddragon" ->
         {Ok(b) : b \in DataDragonBodies \ {Undefined}} \cup {NetworkError}
    [] call.pc = "youtube" ->
         {Ok(b) : b \in YoutubeBodies \ {Undefined}} \cup {Http(403, Null)}

\* a response arrives; when it ends the call, the fetch that awaited it
\* continues
ViewRespond ==
  \E i \in Slots :
    /\ calls[i].pc # "idle"
    /\ \E resp \in ViewResponses(calls[i]) :
         LET r == ResumeOp(calls[i], cache, now, resp, env) IN
         /\ Effect(i, r)
         /\ view' = IF r.call.pc = "done"
                      THEN Settle([view EXCEPT !.waits[i] = Null], view.waits[i],
                                  r.call.res)
                      ELSE view
         /\ ev' = [type |-> "response", pc |-> calls[i].pc, resp |-> resp,
                   call |-> r.call]
    /\ UNCHANGED <<now, ticks, starts, family, env>>

InitView ==
  /\ now = 0 /\ ticks = 0 /\ starts = 0
  /\ cache = EmptyCache /\ stored = EmptyCache /\ vreq = NoRequest
  /\ calls = [i \in Slots |-> IdleCall]
  /\ ev = NoEv
  /\ env = Keys(TRUE, FALSE)
  /\ \/ family = "details" /\ view = NoView
     \/ family = "page" /\ view = [NoView EXCEPT !.accounts = SavedAccounts]

NextView ==
  SelectChampion \/ SelectAccount \/ ClearAccount \/ DeleteAccount \/ ViewRespond

SpecView == InitView /\ [][NextView]_vars

\* what the components display
C18_Displayed(v) ==
  <<v.abilities, v.loadingAbilities, v.videos, v.loadingVideos, v.liveGame,
    v.selectedChampionId>>

\* the fetch was started for a selection that is no longer the current one
C18_Superseded(wait) ==
  IF wait.fn = "fetchLiveGameData" THEN wait.of # view.selectedAccount
  ELSE wait.of # view.championName

\* no fetch is in flight, and what is displayed was fetched for the current
\* selection
C18_Settled(v) == \A i \in Slots : v.waits[i] = Null
C18_Current(v) ==
  /\ v.championName # Null =>
       v.abilities.of = v.championName /\ v.videos.of = v.championName
  /\ v.liveGame.value # Null => v.liveGame.of = v.selectedAccount

\* C18: when the champion given to ChampionDetails or the account selected
\* in LivePage (deleted accounts included) has changed while a fetch for the
\* previous selection was in flight, the settling of that fetch leaves the
\* displayed state as it is; and whenever no fetch is in flight, the
\* abilities, the videos and the live match displayed are those of the
\* current selection.
C18_LateResultIgnored ==
  [][/\ \A i \in Slots :
          (/\ view.waits[i] # Null /\ view'.waits[i] = Null
           /\ C18_Superseded(view.waits[i]))
          => C18_Displayed(view') = C18_Displayed(view)
     /\ C18_Settled(view') => C18_Current(view')
    ]_vars

-----------------------------------------------------------------------------
(* The two builders of the ability list on every description within the    *)
(* bound.  A description is its sequence of characters; in the longer       *)
(* examples a run of characters without braces is kept as one element.     *)

Descriptions ==
  SeqsUpTo({"{", "}", "a"}, MaxTextLen)
    \cup {<<"Deals ", "{", "{", " damage ", "}", "}", " physical damage">>,
          <<"<b>", "{", "{", " e1 ", "}", "}", "</b><br>", "{", "{", "}", "}", "%">>}

InitText ==
  /\ now = 0
  /\ ticks = 0 /\ cache = EmptyCache /\ calls = [i \in CallIds |-> IdleCall]
  /\ starts = 0 /\ vreq = NoRequest /\ stored = EmptyCache
  /\ family = "text" /\ env = Keys(TRUE, TRUE) /\ view = NoView
  /\ \E text \in Descriptions : ev = [type |-> "text", text |-> text]

\* lines 365-390 on a champion whose passive and first spell carry the text
BuildFallback ==
  /\ ev.type = "text"
  /\ ev' = [type |-> "fallback", text |-> ev.text,
            list |-> fallbackAbilities(
                       [passive |-> Passive(ev.text),
                        spells |-> <<[name |-> "Decisive Strike",
                                      tooltip |-> ev.text,
                                      cooldownBurn |-> Undefined]>>])]
  /\ UNCHANGED <<now, ticks, cache, calls, starts, vreq, stored, family, env, view>>

\* lines 314-337 on the same champion
BuildPrimary ==
  /\ ev.type = "text"
  /\ ev' = [type |-> "primary", text |-> ev.text,
            list |-> primaryAbilities(
                       [passive |-> Passive(ev.text),
                        spells |-> <<Spell("Decisive Strike", ev.text)>>])]
  /\ UNCHANGED <<now, ticks, cache, calls, starts, vreq, stored, family, env, view>>

NextText == BuildFallback \/ BuildPrimary

SpecText == InitText /\ [][NextText]_vars

\* the placeholders of a text: the spans that open with two "{", close with
\* two "}" and hold no "}" in between
C19_Placeholders(s) ==
  {span \in (1..Len(s)) \X (1..Len(s)) :
     /\ span[2] >= span[1] + 3
     /\ s[span[1]] = "{" /\ s[span[1] + 1] = "{"
     /\ s[span[2] - 1] = "}" /\ s[span[2]] = "}"
     /\ \A k \in (span[1] + 2)..(span[2] - 2) : s[k] # "}"}

\* the text with each span of a set of disjoint spans replaced by the token
RECURSIVE C19_Replaced(_, _, _)
C19_Replaced(s, spans, i) ==
  IF i > Len(s) THEN <<>>
  ELSE IF \E span \in spans : span[1] = i
    THEN LET span == CHOOSE x \in spans : x[1] = i IN
         <<"[VALUE]">> \o C19_Replaced(s, spans, span[2] + 1)
    ELSE <<s[i]>> \o C19_Replaced(s, spans, i + 1)

C19_Disjoint(spans) ==
  \A a, b \in spans : a # b => (a[2] < b[1] \/ b[2] < a[1])

\* out is the source with some of its placeholders replaced by the token and
\* everything else as it was, and no placeholder is left in out
C19_Cleaned(source, out) ==
  /\ \E spans \in SUBSET C19_Placeholders(source) :
       C19_Disjoint(spans) /\ out = C19_Replaced(source, spans, 1)
  /\ C19_Placeholders(out) = {}

\* C19: in the list built by fetchAbilitiesFromDataDragon the description of
\* the passive and of each spell is the source text with its '{{ ... }}'
\* placeholders replaced by the token '[VALUE]', everything outside the
\* placeholders unchanged and no placeholder left ('Deals {{ damage }}
\* physical damage' becomes 'Deals [VALUE] physical damage'); in the list
\* built on the primary path the descriptions are the source text.
C19_PlaceholdersCleaned ==
  /\ ev.type = "fallback" =>
       /\ \A n \in 1..Len(ev.list) : C19_Cleaned(ev.text, ev.list[n].description)
       /\ ev.text = <<"Deals ", "{", "{", " damage ", "}", "}", " physical damage">>
            => ev.list[2].description = <<"Deals ", "[VALUE]", " physical damage">>
  /\ ev.type = "primary" =>
       \A n \in 1..Len(ev.list) : ev.list[n].description = ev.text

\* the fallback builder has cleaned a text that holds two placeholders and
\* markup around them
C19_Witness ==
  /\ ev.type = "fallback"
  /\ ev.list[1].description = <<"<b>", "[VALUE]", "</b><br>", "[VALUE]", "%">>

-----------------------------------------------------------------------------
(* MinigamePage: the guess check.  A challenge is on display, the player   *)
(* has typed a guess (and, in hardcore mode, a cooldown) and submits it.   *)

\* String.prototype.trim on a sequence of characters
RECURSIVE trimStart(_)
trimStart(s) == IF s # <<>> /\ Head(s) = " " THEN trimStart(Tail(s)) ELSE s
RECURSIVE trimEnd(_)
trimEnd(s) ==
  IF s # <<>> /\ s[Len(s)] = " " THEN trimEnd(SubSeq(s, 1, Len(s) - 1)) ELSE s
trim(s) == trimEnd(trimStart(s))

Min3(a, b, c) ==
  IF a <= b /\ a <= c THEN a ELSE IF b <= c THEN b ELSE c

\* the distance that only compares the lengths
lengthDistance(str1, str2) ==
  IF Len(str1) >= Len(str2) THEN Len(str1) - Len(str2) ELSE Len(str2) - Len(str1)

\* matrix[i][j] as the loops of lines 36-56 fill it
RECURSIVE matrix(_, _, _, _)
matrix(str1, str2, i, j) ==
  IF i = 0 THEN j
  ELSE IF j = 0 THEN i
  ELSE IF str2[i] = str1[j] THEN matrix(str1, str2, i - 1, j - 1)
  ELSE Min3(matrix(str1, str2, i - 1, j - 1) + 1,
            matrix(str1, str2, i, j - 1) + 1,
            matrix(str1, str2, i - 1, j) + 1)

levenshteinDistance(str1, str2) == matrix(str1, str2, Len(str2), Len(str1))

\* the value of a text of decimal digits
RECURSIVE digitsValue(_)
digitsValue(s) ==
  IF s = <<>> THEN 0
  ELSE 10 * digitsValue(SubSeq(s, 1, Len(s) - 1))
       + (CHOOSE d \in 0..9 : ToString(d) = s[Len(s)])

\* the number JavaScript makes of a value in isNaN and in a subtraction; the
\* texts are empty, unsigned integers or not numeric
NaN == [t |-> "nan"]
toNumber(x) ==
  CASE x.t = "num" -> x
    [] x.t = "chars" ->
         IF \A i \in 1..Len(x.v) : \E d \in 0..9 : ToString(d) = x.v[i]
           THEN Num(digitsValue(x.v)) ELSE NaN
    [] x.t = "str" -> IF x.v = "" THEN Num(0) ELSE NaN
    [] OTHER -> NaN

\* parseFloat of the text of the cooldown input: a text that reads as a
\* number is kept as that number
parseFloat(x) == IF x.t = "num" THEN x ELSE NaN

\* lines 324-345; actualCooldowns is an array, the text of the guess is kept
\* as the number it reads as
validateCooldownGuess(guess, actualCooldowns) ==
  /\ Truthy(guess)
  /\ parseFloat(guess) # NaN
  /\ Len(actualCooldowns) > 0
  /\ LET guessNum == parseFloat(guess).v
         level1Cooldown == toNumber(actualCooldowns[1])
     IN /\ level1Cooldown # NaN
        /\ guessNum - level1Cooldown.v <= 1
        /\ level1Cooldown.v - guessNum <= 1

\* updateChampionScore: (prev[championName] || 0) + points
updateChampionScore(scores, championName, points) ==
  [n \in DOMAIN scores \cup {championName} |->
     IF n = championName
       THEN (IF n \in DOMAIN scores THEN scores[n] ELSE 0) + points
       ELSE scores[n]]

\* the champions of the minigame, the texts a player may type
Garen == <<"G", "a", "r", "e", "n">>
Jax == <<"J", "a", "x">>
Zac == <<"Z", "a", "c">>
GuessNames == (SeqsUpTo({"a", "B"}, 3) \ {<<>>}) \cup {Garen, Jax, Zac}
Guesses ==
  SeqsUpTo({"a", "B", " "}, MaxGuessLen) \cup {<<" ", "g", "a", "r", "r", "e", "n">>}
CooldownGuesses == {Str(""), Num(9), Num(12)}

\* lines 288-302: the flag, the counter and one more interval timer
startCooldown(v) ==
  [v EXCEPT !.cooldownActive = TRUE, !.cooldownSeconds = 10, !.intervals = @ + 1]

\* lines 203-258: the page v after the handleSubmitGuess of the render c has
\* run (what the function reads comes from c, its state updaters apply to
\* v); guessToCheck is the trimmed champion name handed over by the Enter
\* key, or the trimmed input of c
handleSubmitGuessFrom(c, v, guessToCheck) ==
  IF c.currentChallenge = Null \/ guessToCheck = <<>> THEN v
  ELSE
    LET guess == toLowerCase(guessToCheck)
        name == c.currentChallenge.champion
        correct == toLowerCase(name)
        distance == levenshteinDistance(guess, correct)
        isCorrect ==
          /\ guess = correct \/ distance <= 2
          /\ c.hardcoreMode =>
               validateCooldownGuess(c.cooldownGuess, c.currentChallenge.cooldowns)
        guessed == {n \in GuessNames : toLowerCase(n) = guess}
        w == IF isCorrect \/ c.cooldownDisabled THEN v ELSE startCooldown(v)
        missed ==
          IF guessed = {} THEN v.championScores
          ELSE updateChampionScore(v.championScores,
                                   CHOOSE n \in guessed : TRUE, -1)
    IN [w EXCEPT
          !.streak = IF isCorrect THEN v.streak + 1 ELSE 0,
          !.championScores =
             IF isCorrect THEN updateChampionScore(v.championScores, name, 2)
             ELSE updateChampionScore(missed, name, -1),
          !.currentChallenge.isCorrect = Bool(isCorrect),
          !.gameState = "revealed"]

\* handleSubmitGuess of the current render
handleSubmitGuess(v, guessToCheck) == handleSubmitGuessFrom(v, v, guessToCheck)

InitGuess ==
  /\ now = 0 /\ ticks = 0 /\ starts = 0
  /\ cache = EmptyCache /\ stored = EmptyCache /\ vreq = NoRequest
  /\ calls = [i \in CallIds |-> IdleCall]
  /\ ev = NoEv /\ family = "minigame" /\ env = Keys(TRUE, TRUE)
  /\ \E name \in GuessNames, typed \in Guesses, hardcoreMode \in BOOLEAN :
     \E cooldownGuess \in IF hardcoreMode THEN CooldownGuesses ELSE {Str("")} :
       view = [currentChallenge |->
                 [champion |-> name,
                  cooldowns |-> <<Num(8), Num(8), Num(8), Num(8), Num(8)>>,
                  isCorrect |-> Null],
               userGuess |-> typed, cooldownGuess |-> cooldownGuess,
               hardcoreMode |-> hardcoreMode,
               gameState |-> "playing", streak |-> 1,
               cooldownActive |-> FALSE, cooldownSeconds |-> 0,
               cooldownDisabled |-> FALSE, intervals |-> 0,
               championScores |-> [n \in {} |-> 0]]

\* the Submit button (or Enter in the cooldown input): handleSubmitGuess()
SubmitGuess ==
  /\ family = "minigame" /\ view.gameState = "playing"
  /\ view' = handleSubmitGuess(view, trim(view.userGuess))
  /\ ev' = [type |-> "guess"]
  /\ UNCHANGED <<now, ticks, cache, calls, starts, vreq, stored, family, env>>

\* Enter in the champion input outside hardcore mode: the dropdown hands
\* the champion name it selected to handleSubmitGuess(championName)
EnterGuess ==
  /\ family = "minigame" /\ view.gameState = "playing" /\ ~view.hardcoreMode
  /\ \E championName \in GuessNames :
       /\ view' = handleSubmitGuess([view EXCEPT !.userGuess = championName],
                                    trim(championName))
       /\ ev' = [type |-> "enter"]
  /\ UNCHANGED <<now, ticks, cache, calls, starts, vreq, stored, family, env>>

NextGuess == SubmitGuess \/ EnterGuess

SpecGuess == InitGuess /\ [][NextGuess]_vars

\* the edit distance: the least number of insertions, deletions and
\* substitutions of one character that turn the first n characters of a
\* into the first m characters of b
RECURSIVE C20_Edits(_, _, _, _)
C20_Edits(a, b, n, m) ==
  IF n = 0 THEN m
  ELSE IF m = 0 THEN n
  ELSE Min3(C20_Edits(a, b, n - 1, m) + 1,
            C20_Edits(a, b, n, m - 1) + 1,
            C20_Edits(a, b, n - 1, m - 1) + (IF a[n] = b[m] THEN 0 ELSE 1))
C20_EditDistance(a, b) == C20_Edits(a, b, Len(a), Len(b))

\* C20: levenshteinDistance(a, b) is the edit distance of a and b (in both
\* orders, on the texts as typed and as compared); and outside hardcore
\* mode a submitted guess that is not empty once trimmed is judged, and is
\* treated as correct (the streak grows by one, the challenge is marked
\* correct) exactly when the edit distance between the trimmed, lower-cased
\* guess and the lower-cased champion name is at most 2, as for 'garren' and
\* 'Garen'; otherwise it is treated as wrong (the streak falls to 0).
C20_GuessCheck ==
  [][LET name == view.currentChallenge.champion
         typed == view'.userGuess
         guess == toLowerCase(trim(typed))
         correct == toLowerCase(name)
     IN /\ levenshteinDistance(typed, name) = C20_EditDistance(typed, name)
        /\ levenshteinDistance(guess, correct) = C20_EditDistance(guess, correct)
        /\ levenshteinDistance(correct, guess) = C20_EditDistance(guess, correct)
        /\ (~view.hardcoreMode /\ guess # <<>>) =>
             /\ view'.gameState = "revealed"
             /\ IF C20_EditDistance(guess, correct) <= 2
                  THEN /\ view'.currentChallenge.isCorrect = Bool(TRUE)
                       /\ view'.streak = view.streak + 1
                  ELSE /\ view'.currentChallenge.isCorrect = Bool(FALSE)
                       /\ view'.streak = 0
    ]_vars

\* ' garren' has been submitted for Garen and counted as correct
C20_Witness ==
  /\ family = "minigame" /\ view.gameState = "revealed"
  /\ view.userGuess = <<" ", "g", "a", "r", "r", "e", "n">>
  /\ view.currentChallenge.champion = Garen
  /\ view.currentChallenge.isCorrect = Bool(TRUE) /\ view.streak = 2

-----------------------------------------------------------------------------
(* parseSkillOrder on the pages of a skill table: one row of 18 cells per   *)
(* skill, each cell holding the letter of its row, active in the columns    *)
(* of a set; a page may open with cells that belong to no row.              *)

GridRow(letter, columns) == [c \in 1..18 |-> Cell(letter, c \in columns)]
GridPage(lead, qN, wColumns, eColumns) ==
  Page([i \in 1..lead |-> Cell("", FALSE)]
         \o GridRow("Q", 1..qN) \o GridRow("W", wColumns) \o GridRow("E", eColumns))

GridPages ==
  {GridPage(lead, qN, wColumns, eColumns) :
     lead \in {0, 1}, qN \in 0..18, wColumns \in SUBSET {1, 2, 18},
     eColumns \in {{}, {3}, {17, 18}}}

InitScrape ==
  /\ now = 0 /\ ticks = 0 /\ starts = 0
  /\ cache = EmptyCache /\ stored = EmptyCache /\ vreq = NoRequest
  /\ calls = [i \in CallIds |-> IdleCall]
  /\ family = "scrape" /\ env = Keys(TRUE, TRUE) /\ view = NoView
  /\ \E page \in GridPages : ev = [type |-> "page", page |-> page]

\* lines 426-431: the page goes through the parser
ParsePage ==
  /\ ev.type = "page"
  /\ ev' = [type |-> "parsed", page |-> ev.page, order |-> parseSkillOrder(ev.page).v]
  /\ UNCHANGED <<now, ticks, cache, calls, starts, vreq, stored, family, env, view>>

NextScrape == ParsePage

SpecScrape == InitScrape /\ [][NextScrape]_vars

\* the active cells of a page that hold a skill letter
C21_Active(cells) ==
  {i \in 1..Len(cells) : cells[i].active /\ cells[i].content \in skillLetters}

\* the letter a level keeps when every active cell takes part: that of the
\* first active cell, in document order, whose position modulo 18 is the level
C21_Letter(cells, position) ==
  LET at == {i \in C21_Active(cells) : (i - 1) % 18 = position} IN
  IF at = {} THEN "" ELSE cells[CHOOSE i \in at : \A j \in at : i <= j].content

C21_Placed(cells) ==
  SelectSeq([p \in 1..18 |-> C21_Letter(cells, p - 1)], LAMBDA skill : skill # "")

\* C21: the order parseSkillOrder returns is the placement of every active
\* cell of the page, each at its position modulo 18, the first active cell
\* of a level keeping it (the order is dropped when it has fewer than 6
\* entries).
C21_EveryActiveCellPlaced ==
  ev.type = "parsed" =>
    ev.order = IF Len(C21_Placed(ev.page.cells)) >= 6
                 THEN C21_Placed(ev.page.cells) ELSE <<>>

\* C21, first part only: among the first 18 active cells the first cell of a
\* level keeps it.
C21_FirstWriterWins ==
  ev.type = "parsed" /\ Cardinality(C21_Active(ev.page.cells)) <= 18 =>
    ev.order = IF Len(C21_Placed(ev.page.cells)) >= 6
                 THEN C21_Placed(ev.page.cells) ELSE <<>>

-----------------------------------------------------------------------------
(* The failure fetchLiveGame reports and the request whose answer led to it *)

\* C22: a call of fetchLiveGame rejects with 'Not currently in game' only on
\* the answer of the live-match upstream, and only when that answer is an
\* HTTP 404 or carries no match; the answers to the requests for the version
\* list and for the champion roster never lead to it.
C22_OnlyLiveUpstream ==
  (ev.type = "response" /\ ev.call.op = "live" /\ C6_Rejected(ev.call)) =>
    (ev.pc = "live" /\ (C6_NotFound(ev.resp) \/ C6_NoMatch(ev.resp)))

-----------------------------------------------------------------------------
(* The levels of a scraped page and the indices of the returned order       *)

\* the letters a page marks as levelled at a character level: the active
\* skill cells of the level's column, or the labels of the rows that list it
C23_Marked(page, level) ==
  {page.cells[i].content :
     i \in {j \in 1..Len(page.cells) :
              /\ page.cells[j].active /\ page.cells[j].content \in skillLetters
              /\ (j - 1) % 18 = level - 1}}
  \cup {page.rows[r].label :
          r \in {q \in 1..Len(page.rows) :
                   /\ page.rows[q].label \in skillLetters
                   /\ \E k \in 1..Len(page.rows[q].levels) :
                        page.rows[q].levels[k] = level}}

\* a call of fetchSkillOrder has just returned the order parsed from a page
C23_Scraped ==
  /\ ev.type = "response" /\ ev.call.op = "skill"
  /\ ev.pc \in {"leagueofgraphs", "ugg"}
  /\ ev.resp.kind = "ok" /\ ev.resp.body.t = "html"
  /\ ev.call.pc = "done" /\ ev.call.res.st = "resolved"

\* C23: in every non-empty order returned from a scrape, for each level 1..18
\* at which the page marks a skill, the entry at index level - 1 (0-based)
\* is a skill the page marks at that level, also when the page marks only
\* some of the levels.
C23_IndexIsLevel ==
  C23_Scraped =>
    LET order == ev.call.res.v.v IN
    Len(order) > 0 =>
      \A level \in 1..18 :
        C23_Marked(ev.resp.body, level) # {} =>
          /\ level <= Len(order)
          /\ order[level] \in C23_Marked(ev.resp.body, level)

-----------------------------------------------------------------------------
(* A forced refresh of the skill order and the entry it finds in the cache  *)

\* the step is the failure of the u.gg request of a forced call, the
\* LeagueOfGraphs attempt having given nothing before
C24_ForcedRefreshFailed ==
  /\ ev'.type = "response" /\ ev'.call.op = "skill" /\ ev'.pc = "ugg"
  /\ ev'.resp.kind # "ok" /\ ev'.call.pc = "done"
  /\ ev'.call.arg.forceRefresh

\* the cache holds a non-empty order for the champion that has not expired
C24_ValidOrder(c, championName, t) ==
  /\ SkillKey(championName) \in DOMAIN c
  /\ ~isExpired(c[SkillKey(championName)].timestamp, DATA_DRAGON, t)
  /\ c[SkillKey(championName)].data.t = "arr"
  /\ Len(c[SkillKey(championName)].data.v) > 0

\* C24: when both sources fail during a forced refresh while the cache holds
\* a valid non-empty order for the champion, the entry is left as it was, so
\* that non-forced calls within the TTL still return that order.
C24_RefreshKeepsOrder ==
  [][(C24_ForcedRefreshFailed
      /\ C24_ValidOrder(cache, ev'.call.arg.championName, now))
     => cache'[SkillKey(ev'.call.arg.championName)]
          = cache[SkillKey(ev'.call.arg.championName)]
    ]_vars

-----------------------------------------------------------------------------
(* Hardcore mode on every ability a challenge can pick: the entries of the  *)
(* lists fetchChampionAbilities builds from the two sources                 *)

ChallengeAbilities ==
  UNION {{primaryAbilities(b.v)[i] : i \in 1..Len(primaryAbilities(b.v))} :
           b \in {x \in BigBrainBodies : Truthy(x)}}
  \cup UNION {{fallbackAbilities(b.v)[i] : i \in 1..Len(fallbackAbilities(b.v))} :
                b \in {x \in DataDragonBodies : Truthy(x)}}

\* what the cooldown input may hold: nothing, or a number of seconds
CooldownInputs ==
  {Str("")} \cup {Num(n) : n \in {0, 1, 7, 8, 9, 10, 119, 120, 300}}

\* lines 186-195 in hardcore mode, the champion's name typed in full
InitHardcore ==
  /\ now = 0 /\ ticks = 0 /\ starts = 0
  /\ cache = EmptyCache /\ stored = EmptyCache /\ vreq = NoRequest
  /\ calls = [i \in CallIds |-> IdleCall]
  /\ ev = NoEv /\ family = "minigame" /\ env = Keys(TRUE, TRUE)
  /\ \E ability \in ChallengeAbilities, cooldownGuess \in CooldownInputs :
       view = [currentChallenge |->
                 [champion |-> Garen, key |-> ability.key,
                  cooldowns |-> ability.cooldowns, isCorrect |-> Null],
               userGuess |-> Garen, cooldownGuess |-> cooldownGuess,
               hardcoreMode |-> TRUE,
               gameState |-> "playing", streak |-> 1,
               cooldownActive |-> FALSE, cooldownSeconds |-> 0,
               cooldownDisabled |-> FALSE, intervals |-> 0,
               championScores |-> [n \in {} |-> 0]]

NextHardcore == SubmitGuess

SpecHardcore == InitHardcore /\ [][NextHardcore]_vars

\* C25: in hardcore mode, whatever ability the challenge picked (the passive
\* and the abilities of the fallback source included), some content of the
\* cooldown input makes validateCooldownGuess true, and submitting the
\* champion's name with it is scored as correct.
C25_Answerable ==
  (family = "minigame" /\ view.hardcoreMode /\ view.gameState = "playing") =>
    \E guess \in CooldownInputs :
      /\ validateCooldownGuess(guess, view.currentChallenge.cooldowns)
      /\ handleSubmitGuess([view EXCEPT !.cooldownGuess = guess],
                           trim(view.userGuess)).currentChallenge.isCorrect = Bool(TRUE)

-----------------------------------------------------------------------------
(* A guess that is the name of another champion of the roster              *)

\* the text submitted names, letter case aside, a champion of the roster
\* that is not the champion of the challenge
C26_NamesOther(v) ==
  LET guess == toLowerCase(trim(v.userGuess)) IN
  /\ guess # toLowerCase(v.currentChallenge.champion)
  /\ \E n \in GuessNames : toLowerCase(n) = guess

\* C26: a submitted guess that exactly names another champion of the roster
\* is revealed as not correct, resets the streak and takes a point from the
\* champion of the challenge.
C26_OtherChampionIsWrong ==
  [][(/\ family = "minigame"
      /\ view.gameState = "playing" /\ view'.gameState = "revealed"
      /\ C26_NamesOther(view'))
     => /\ view'.currentChallenge.isCorrect = Bool(FALSE)
        /\ view'.streak = 0
        /\ view'.championScores[view.currentChallenge.champion] = -1
    ]_vars

-----------------------------------------------------------------------------
(* The minigame page: its React state, the keydown handler registered on    *)
(* the document, the timers and the challenge generations in flight.  A     *)
(* handler reads the state of the render that created it: the buttons and   *)
(* the inputs carry the handlers of the current render, the document's      *)
(* keydown handler those of the render after which hardcoreMode, gameState  *)
(* or cooldownActive last changed (lines 426-473).                          *)

MaxChallenges == 3

\* the champions of the roster; the random pick of a generation falls on
\* one of Picks
GameChampions == {Garen, Zac}
Picks == {Garen}

\* what the handlers of a render read of it
Closure(v) ==
  [currentChallenge |-> v.currentChallenge, userGuess |-> v.userGuess,
   cooldownGuess |-> v.cooldownGuess, hardcoreMode |-> v.hardcoreMode,
   cooldownDisabled |-> v.cooldownDisabled, gameState |-> v.gameState,
   cooldownActive |-> v.cooldownActive]

\* the render after a handler took the page from v to w: the effect of
\* lines 426-473 registers the keydown handler again when one of its
\* dependencies changed
Rendered(v, w) ==
  IF <<w.hardcoreMode, w.gameState, w.cooldownActive>>
       # <<v.hardcoreMode, v.gameState, v.cooldownActive>>
    THEN [w EXCEPT !.keydown = Closure(w)]
    ELSE w

\* lines 260-279, of the render c on the page v
handleDontKnow(c, v) ==
  IF c.currentChallenge = Null THEN v
  ELSE
    LET w == IF c.cooldownDisabled THEN v ELSE startCooldown(v) IN
    [w EXCEPT !.streak = 0,
              !.championScores =
                 updateChampionScore(v.championScores,
                                     c.currentChallenge.champion, -1),
              !.currentChallenge.isCorrect = Bool(FALSE),
              !.gameState = "revealed"]

\* lines 171-177: a generation starts on a champion picked at random
generateNewChallenge(v, champion) ==
  [v EXCEPT !.loading = TRUE, !.started = @ + 1,
            !.inFlight = @ \cup {[n |-> v.started + 1, champion |-> champion]}]

\* lines 178-200: the two fetches of a generation have settled
generated(v, g, result) ==
  LET w == IF result = "abilities"
             THEN [v EXCEPT !.userGuess = <<>>, !.cooldownGuess = Str(""),
                            !.currentChallenge =
                               [champion |-> g.champion,
                                cooldowns |-> <<Num(8), Num(8), Num(8), Num(8), Num(8)>>,
                                isCorrect |-> Null, n |-> g.n],
                            !.gameState = "playing"]
             ELSE v
  IN [w EXCEPT !.loading = FALSE, !.inFlight = @ \ {g}]

\* lines 292-301: one interval timer fires
tick(v) ==
  IF v.cooldownSeconds <= 1
    THEN [v EXCEPT !.cooldownActive = FALSE, !.intervals = @ - 1,
                   !.cooldownSeconds = 0]
    ELSE [v EXCEPT !.cooldownSeconds = @ - 1]

RECURSIVE everyInterval(_, _)
everyInterval(v, k) == IF k = 0 THEN v ELSE everyInterval(tick(v), k - 1)

\* the guess section is on the page
Playing(v) == v.gameState = "playing" /\ ~v.loading /\ v.currentChallenge # Null

\* no timer is pending: the player's next key or click comes later than the
\* 10 ms of the timers
Settled(v) == v.timeouts = <<>>

GameFamilies == {"game"}

GameStep(action, w) ==
  /\ family \in GameFamilies
  /\ view' = Rendered(view, w)
  /\ ev' = [type |-> "game", action |-> action]
  /\ UNCHANGED <<now, ticks, cache, calls, starts, vreq, stored, family, env>>

\* the page once loadChampions has started the first generation, with
\* nothing saved in localStorage
InitGame ==
  /\ now = 0 /\ ticks = 0 /\ starts = 0
  /\ cache = EmptyCache /\ stored = EmptyCache /\ vreq = NoRequest
  /\ calls = [i \in CallIds |-> IdleCall]
  /\ ev = NoEv /\ family \in GameFamilies /\ env = Keys(TRUE, TRUE)
  /\ \E champion \in Picks :
       LET mounted ==
             [currentChallenge |-> Null, userGuess |-> <<>>,
              cooldownGuess |-> Str(""), hardcoreMode |-> FALSE,
              cooldownDisabled |-> FALSE,
              gameState |-> "playing", streak |-> 0,
              cooldownActive |-> FALSE, cooldownSeconds |-> 0, intervals |-> 0,
              championScores |-> [n \in {} |-> 0],
              loading |-> FALSE, started |-> 0, inFlight |-> {},
              timeouts |-> <<>>, keydown |-> Null]
       IN view = generateNewChallenge(
                   [mounted EXCEPT !.keydown = Closure(mounted)], champion)

\* Enter in the champion input on a highlighted champion: the dropdown
\* selects it and, outside hardcore mode, calls onEnterPress(name) from a
\* timer of 0 ms (lines 719-725); the document's handler sets a timer of
\* 10 ms for its own handleSubmitGuess() (lines 434-440)
EnterChampion ==
  /\ Playing(view) /\ Settled(view)
  /\ \E name \in GameChampions :
       GameStep("enterChampion",
         [view EXCEPT
            !.userGuess = name,
            !.timeouts =
               (IF view.hardcoreMode THEN <<>>
                ELSE <<[name |-> name, c |-> Closure(view)]>>)
               \o (IF ~view.keydown.hardcoreMode /\ view.keydown.gameState = "playing"
                     THEN <<[name |-> <<>>, c |-> view.keydown]>>
                     ELSE <<>>)])

\* the earliest timer fires: handleSubmitGuess of the render that set it
Timeout ==
  /\ view.timeouts # <<>>
  /\ LET timer == Head(view.timeouts) IN
     GameStep("timeout",
       handleSubmitGuessFrom(
         timer.c, [view EXCEPT !.timeouts = Tail(@)],
         IF timer.name # <<>> THEN trim(timer.name) ELSE trim(timer.c.userGuess)))

\* the Submit button, enabled as line 762 says
ClickSubmit ==
  /\ Playing(view) /\ Settled(view) /\ trim(view.userGuess) # <<>>
  /\ view.hardcoreMode => Truthy(view.cooldownGuess)
  /\ GameStep("submit", handleSubmitGuess(view, trim(view.userGuess)))

\* the button "I don't know"
ClickDontKnow ==
  /\ Playing(view) /\ Settled(view)
  /\ GameStep("dontKnow", handleDontKnow(view, view))

\* a number is typed in the cooldown input
TypeCooldown ==
  /\ Playing(view) /\ Settled(view) /\ view.hardcoreMode
  /\ ~Truthy(view.cooldownGuess)
  /\ GameStep("typeCooldown", [view EXCEPT !.cooldownGuess = Num(8)])

\* Enter in the cooldown input: the input's onKeyDown calls
\* handleSubmitGuess() (lines 748-752), then the event reaches the document.
\* Whether the handler found there is still the one registered before the
\* key was pressed or already that of the render after the first call
\* depends on when React flushes the render and its effects; both are kept.
EnterCooldown ==
  /\ Playing(view) /\ Settled(view) /\ view.hardcoreMode
  /\ LET first == Rendered(view, handleSubmitGuess(view, trim(view.userGuess))) IN
     \E flushed \in BOOLEAN, champion \in Picks :
       LET handler == IF flushed THEN first.keydown ELSE view.keydown IN
       /\ handler.gameState = "revealed" /\ ~handler.cooldownActive
            => view.started < MaxChallenges
       /\ GameStep("enterCooldown",
            IF handler.gameState = "playing"
              THEN handleSubmitGuessFrom(handler, first, trim(handler.userGuess))
            ELSE IF ~handler.cooldownActive
              THEN generateNewChallenge(first, champion)
            ELSE first)

\* the Hardcore switch
ToggleHardcore ==
  /\ Settled(view)
  /\ GameStep("toggleHardcore", [view EXCEPT !.hardcoreMode = ~@])

\* the button "Next Challenge", disabled while the cooldown is active
ClickNext ==
  /\ Settled(view)
  /\ view.gameState = "revealed" /\ ~view.loading /\ view.currentChallenge # Null
  /\ ~view.cooldownActive /\ view.started < MaxChallenges
  /\ \E champion \in Picks :
       GameStep("next", generateNewChallenge(view, champion))

\* Enter anywhere on the page once the answer is revealed (lines 462-467)
PressEnter ==
  /\ Settled(view)
  /\ view.keydown.gameState = "revealed" /\ ~view.keydown.cooldownActive
  /\ view.started < MaxChallenges
  /\ \E champion \in Picks :
       GameStep("enter", generateNewChallenge(view, champion))

\* a generation in flight settles: with abilities, or with an error (an
\* empty list of abilities leaves the page the same way)
GenerationDone ==
  \E g \in view.inFlight, result \in {"abilities", "error"} :
    GameStep("generated", generated(view, g, result))

\* one second passes: every interval timer fires once
Second ==
  /\ view.intervals > 0
  /\ GameStep("second", everyInterval(view, view.intervals))

NextGame ==
  \/ EnterChampion \/ Timeout \/ ClickSubmit \/ ClickDontKnow \/ TypeCooldown
  \/ EnterCooldown \/ ToggleHardcore \/ ClickNext \/ PressEnter
  \/ GenerationDone \/ Second

SpecGame == InitGame /\ [][NextGame]_vars

\* C27: once the answer of a challenge is revealed, no step of the page
\* (button, input, dropdown callback, document-level Enter handler or one
\* of their timers) changes the streak or a champion's score before the
\* challenge of a later generation is on the page.
C27_ScoredOnce ==
  [][(/\ family \in GameFamilies
      /\ view.gameState = "revealed"
      /\ view'.currentChallenge.n = view.currentChallenge.n)
     => (/\ view'.streak = view.streak
         /\ view'.championScores = view.championScores)
    ]_vars

\* C28: after a wrong answer or a skip with the cooldown enabled, no new
\* challenge is started, by the button or by the Enter key, until the
\* cooldown has counted from 10 down to 0 in steps of one per second: no
\* generation starts while the cooldown is active, and every second that
\* passes during the cooldown lowers the count by exactly one.
C28_CountsEverySecond ==
  [][(family \in GameFamilies) =>
       (/\ view'.started > view.started => ~view.cooldownActive
        /\ (view.cooldownActive /\ ev'.type = "game" /\ ev'.action = "second")
             => (/\ view'.cooldownSeconds = view.cooldownSeconds - 1
                 /\ view'.cooldownActive = (view'.cooldownSeconds > 0)))
    ]_vars

\* the first half of C28 alone: no generation starts while the cooldown is
\* active
C28_NoStartDuringCooldown ==
  [][(family \in GameFamilies) =>
       (view'.started > view.started => ~view.cooldownActive)]_vars

\* the timers of the cooldown alone: startCooldown called for a wrong answer
\* or a skip, twice for the same key press included, and the seconds passing
InitCooldown ==
  /\ now = 0 /\ ticks = 0 /\ starts = 0
  /\ cache = EmptyCache /\ stored = EmptyCache /\ vreq = NoRequest
  /\ calls = [i \in CallIds |-> IdleCall]
  /\ ev = NoEv /\ family = "cooldown" /\ env = Keys(TRUE, TRUE)
  /\ view = [cooldownActive |-> FALSE, cooldownSeconds |-> 0, intervals |-> 0,
             started |-> 0]

CooldownStep(action, w) ==
  /\ family = "cooldown"
  /\ view' = w
  /\ ev' = [type |-> "game", action |-> action]
  /\ UNCHANGED <<now, ticks, cache, calls, starts, vreq, stored, family, env>>

StartCooldown ==
  /\ view.started < MaxChallenges
  /\ CooldownStep("startCooldown", [startCooldown(view) EXCEPT !.started = @ + 1])

CooldownSecond ==
  /\ view.intervals > 0
  /\ CooldownStep("second", everyInterval(view, view.intervals))

NextCooldown == StartCooldown \/ CooldownSecond

FairSpecCooldown ==
  InitCooldown /\ [][NextCooldown]_vars /\ WF_vars(CooldownSecond)

\* the cooldown always ends, under the fairness of the interval timers
C28_CooldownEnds ==
  (family = "cooldown" /\ view.cooldownActive) ~> ~view.cooldownActive

\* C29: at most one challenge generation is in flight at a time, the loading
\* flag is true exactly while a generation is in flight, and once loading has
\* ended the challenge to guess is the one of the generation started last.
C29_OneGeneration ==
  family \in GameFamilies =>
    /\ Cardinality(view.inFlight) <= 1
    /\ view.loading <=> (view.inFlight # {})
    /\ (~view.loading /\ view.gameState = "playing" /\ view.currentChallenge # Null)
         => view.currentChallenge.n = view.started

\* the parts of C29, one by one
C29_AtMostOneInFlight ==
  family \in GameFamilies => Cardinality(view.inFlight) <= 1

C29_LoadingWhileInFlight ==
  family \in GameFamilies => (view.loading <=> (view.inFlight # {}))

C29_LatestChallengeShown ==
  (/\ family \in GameFamilies
   /\ view.inFlight = {} /\ view.gameState = "playing"
   /\ view.currentChallenge # Null)
  => view.currentChallenge.n = view.started

-----------------------------------------------------------------------------
\* The saved accounts (src/utils/storage.js).  localStorage holds the list
\* under 'lol_accounts' as JSON and the last selection under
\* 'last_selected_account'; the list of { name } objects is kept as it
\* parses back, a key never written is Null as getItem returns it.

MaxNameLen == 2
MaxAccounts == 3

AccountNames == SeqsUpTo({" ", "a", "b"}, MaxNameLen)

\* lines 2-5
getAccounts(ls) ==
  IF Truthy(ls.lol_accounts) THEN ls.lol_accounts.v ELSE <<>>

\* lines 38-40
getLastSelectedAccount(ls) ==
  IF Truthy(ls.last_selected_account) THEN ls.last_selected_account.v ELSE <<>>

\* lines 7-21: the outcome ("false", "throws" or "true") and the storage left
saveAccount(ls, name) ==
  LET accounts == getAccounts(ls) IN
  IF trim(name) = <<>> THEN [result |-> "false", ls |-> ls]
  ELSE IF \E i \in 1..Len(accounts) : accounts[i].name = name
    THEN [result |-> "throws", ls |-> ls]
  ELSE [result |-> "true",
        ls |-> [lol_accounts |-> Arr(Append(accounts, [name |-> trim(name)])),
                last_selected_account |-> Chars(trim(name))]]

\* lines 23-36
deleteAccount(ls, name) ==
  LET accounts == getAccounts(ls)
      Kept(acc) == acc.name # name
      filteredAccounts == SelectSeq(accounts, Kept)
      written == [ls EXCEPT !.lol_accounts = Arr(filteredAccounts)]
  IN IF getLastSelectedAccount(written) = name
       THEN [written EXCEPT !.last_selected_account = Chars(<<>>)]
       ELSE written

AccountsStep(op, name, result, ls) ==
  /\ family = "accounts"
  /\ view' = ls
  /\ ev' = [type |-> "accounts", op |-> op, name |-> name, result |-> result]
  /\ UNCHANGED <<now, ticks, cache, calls, starts, vreq, stored, family, env>>

\* empty storage
InitAccounts ==
  /\ now = 0 /\ ticks = 0 /\ starts = 0
  /\ cache = EmptyCache /\ stored = EmptyCache /\ vreq = NoRequest
  /\ calls = [i \in CallIds |-> IdleCall]
  /\ ev = NoEv /\ family = "accounts" /\ env = Keys(TRUE, TRUE)
  /\ view = [lol_accounts |-> Null, last_selected_account |-> Null]

\* saveAccount(name), while the list has room in the model
CallSaveAccount ==
  /\ Len(getAccounts(view)) < MaxAccounts
  /\ \E name \in AccountNames :
       LET saved == saveAccount(view, name) IN
       AccountsStep("saveAccount", name, saved.result, saved.ls)

\* deleteAccount(name)
CallDeleteAccount ==
  /\ family = "accounts"
  /\ \E name \in AccountNames :
       AccountsStep("deleteAccount", name, "list", deleteAccount(view, name))

NextAccounts == CallSaveAccount \/ CallDeleteAccount

SpecAccounts == InitAccounts /\ [][NextAccounts]_vars

StoredNames(ls) == {getAccounts(ls)[i].name : i \in 1..Len(getAccounts(ls))}

\* C30: after any sequence of saveAccount and deleteAccount calls from empty
\* storage, with any names, the stored account names are pairwise distinct
\* and the last-selected account is empty or the name of a stored account;
\* a saveAccount call that throws or returns false leaves storage unchanged.
C30_AccountsInvariant ==
  [][(family = "accounts") =>
       (/\ \A i, j \in 1..Len(getAccounts(view')) :
             getAccounts(view')[i].name = getAccounts(view')[j].name => i = j
        /\ getLastSelectedAccount(view') \in {<<>>} \cup StoredNames(view')
        /\ (ev'.op = "saveAccount" /\ ev'.result \in {"throws", "false"})
             => view' = view)
    ]_vars

\* the parts of C30, one by one
C30_DistinctNames ==
  family = "accounts" =>
    \A i, j \in 1..Len(getAccounts(view)) :
      getAccounts(view)[i].name = getAccounts(view)[j].name => i = j

C30_LastSelectedStored ==
  family = "accounts" =>
    getLastSelectedAccount(view) \in {<<>>} \cup StoredNames(view)

C30_FailedSaveKeepsStorage ==
  [][(/\ family = "accounts"
      /\ ev'.op = "saveAccount" /\ ev'.result \in {"throws", "false"})
     => view' = view]_vars

====
